---- MODULE Spec2Model ----
(***************************************************************************)
(* A model of the asynchronous log-appender pipeline of maidsafe_utilities *)
(* (src/log/async_log.rs, src/async_log.rs, src/thread.rs): producer       *)
(* threads encode a record and send a Log event over an unbounded mpsc     *)
(* channel; one worker thread per AsyncAppender receives the events in     *)
(* order, post-processes the text and hands it to the Transport's blocking *)
(* sync_write; dropping the appender sends Terminate, drops the sender and *)
(* joins the worker.                                                       *)
(*                                                                         *)
(* Beside the pipeline the module holds, each with its own specification:  *)
(* the log server of the server_logging tests, which cuts the TCP stream   *)
(* at the terminators (SpecServer); the init functions behind the Once     *)
(* INITIALISE_LOGGER of src/log/mod.rs (SpecLogger); and the Creators,     *)
(* builders and Transports, with WebSocket::new and the drop of the        *)
(* WebSocket of src/log/web_socket.rs (SpecCreator); the pipeline with a   *)
(* Transport whose sync_write panics (SpecFaulty); the Log arm of the      *)
(* worker's loop as a function of one buffer (SpecArm); Joiner and         *)
(* log_or_panic! (SpecJoiner); EventSender (SpecEvents); SeededRng         *)
(* (SpecRng); parse_loggers (SpecParse); the serialisation functions       *)
(* (SpecSerial).                                                           *)
(***************************************************************************)
EXTENDS Integers, Sequences, FiniteSets, TLC

(***************************************************************************)
(* Bounds of the model.                                                    *)
(***************************************************************************)
\* total number of append calls made over the appender's life
MaxMsgs == 2

\* producer threads calling append on the one appender
Threads == {"t1", "t2"}

(***************************************************************************)
(* Bytes and byte strings.                                                 *)
(***************************************************************************)
MSG_TERMINATOR == <<254, 253, 255>>

HASH == 35
SLASH == 47
BACKSLASH == 92
NEWLINE == 10
DOLLAR == 36

\* "#FS" and "#FE#", the sentinels put around the file path by make_pattern
FS_MARK == <<35, 70, 83>>
FE_MARK == <<35, 70, 69, 35>>

\* "#FS#/b#FE#" : a record whose file path is "/b"
TextWithPath == <<35, 70, 83, 35, 47, 98, 35, 70, 69, 35>>

\* output of a pattern encoder is formatted text, hence valid UTF-8:
\* "A", "e-acute" (two bytes) and a text that carries a marked file path
Texts == { <<65>>, <<195, 169>>, TextWithPath }

\* byte buffers that are not UTF-8: the terminator bytes, a truncated
\* two-byte sequence
RawBufs == { <<254, 253, 255>>, <<195>> }

Prefix(s, k) == SubSeq(s, 1, k)

Suffix(s, k) == SubSeq(s, k, Len(s))

IsCont(b, i) == i <= Len(b) /\ b[i] >= 128 /\ b[i] <= 191

InRange(b, i, lo, hi) == i <= Len(b) /\ b[i] >= lo /\ b[i] <= hi

\* String::from_utf8 succeeds: the bytes from position i on are well-formed
RECURSIVE Utf8From(_, _)
Utf8From(b, i) ==
    IF i > Len(b) THEN TRUE
    ELSE LET c == b[i] IN
         IF c < 128 THEN Utf8From(b, i + 1)
         ELSE IF c >= 194 /\ c <= 223
              THEN IsCont(b, i + 1) /\ Utf8From(b, i + 2)
         ELSE IF c = 224
              THEN InRange(b, i + 1, 160, 191) /\ IsCont(b, i + 2) /\ Utf8From(b, i + 3)
         ELSE IF (c >= 225 /\ c <= 236) \/ c = 238 \/ c = 239
              THEN IsCont(b, i + 1) /\ IsCont(b, i + 2) /\ Utf8From(b, i + 3)
         ELSE IF c = 237
              THEN InRange(b, i + 1, 128, 159) /\ IsCont(b, i + 2) /\ Utf8From(b, i + 3)
         ELSE IF c = 240
              THEN InRange(b, i + 1, 144, 191) /\ IsCont(b, i + 2) /\ IsCont(b, i + 3)
                   /\ Utf8From(b, i + 4)
         ELSE IF c >= 241 /\ c <= 243
              THEN IsCont(b, i + 1) /\ IsCont(b, i + 2) /\ IsCont(b, i + 3)
                   /\ Utf8From(b, i + 4)
         ELSE IF c = 244
              THEN InRange(b, i + 1, 128, 143) /\ IsCont(b, i + 2) /\ IsCont(b, i + 3)
                   /\ Utf8From(b, i + 4)
         ELSE FALSE

IsUtf8(b) == Utf8From(b, 1)

(***************************************************************************)
(* The worker's rewrite of a marked file path: the first match of          *)
(*     #FS#?.*[/\\#]([^#]+)#FE#                                            *)
(* is replaced by its capture group 1.                                     *)
(***************************************************************************)
StartsAt(s, i, lit) ==
    /\ i >= 1
    /\ i + Len(lit) - 1 <= Len(s)
    /\ SubSeq(s, i, i + Len(lit) - 1) = lit

\* the first '#' at or after position q, or 0
RECURSIVE HashFrom(_, _)
HashFrom(s, q) ==
    IF q > Len(s) THEN 0
    ELSE IF s[q] = HASH THEN q
    ELSE HashFrom(s, q + 1)

\* with the match starting at a, position p can be the separator [/\\#]:
\* `#?.*` matches what lies between "#FS" and p ('.' matches no newline), and
\* p is followed by one or more non-'#' characters and then "#FE#"
SepOk(s, a, p) ==
    /\ p >= a + 3
    /\ p <= Len(s)
    /\ s[p] \in {SLASH, BACKSLASH, HASH}
    /\ \A k \in (a + 3)..(p - 1) : s[k] # NEWLINE
    /\ HashFrom(s, p + 1) >= p + 2
    /\ StartsAt(s, HashFrom(s, p + 1), FE_MARK)

\* `.*` is greedy: the last position at or before p that can be the separator, or 0
RECURSIVE BestSep(_, _, _)
BestSep(s, a, p) ==
    IF p < a + 3 THEN 0
    ELSE IF SepOk(s, a, p) THEN p
    ELSE BestSep(s, a, p - 1)

\* the leftmost start of a match at or after a, or 0
RECURSIVE FirstMatch(_, _)
FirstMatch(s, a) ==
    IF a > Len(s) THEN 0
    ELSE IF StartsAt(s, a, FS_MARK) /\ BestSep(s, a, Len(s)) # 0 THEN a
    ELSE FirstMatch(s, a + 1)

\* \w of the regex, for the one-byte characters
IsWord(c) == c \in (48..57) \cup (65..90) \cup {95} \cup (97..122)

\* the last index of the run of word characters that starts at i
RECURSIVE WordEnd(_, _)
WordEnd(r, i) == IF i < Len(r) /\ IsWord(r[i + 1]) THEN WordEnd(r, i + 1) ELSE i

\* name.parse::<usize>(): the number a name of digits stands for, or -1
RECURSIVE ParseUsize(_)
ParseUsize(name) ==
    IF name = << >> THEN 0
    ELSE IF name[Len(name)] \notin 48..57 THEN -1
    ELSE IF ParseUsize(Prefix(name, Len(name) - 1)) < 0 THEN -1
    ELSE 10 * ParseUsize(Prefix(name, Len(name) - 1)) + (name[Len(name)] - 48)

\* what `$name` stands for: group 0 is the whole match, group 1 the capture;
\* the regex has no other group and no named group
Group(name, whole, cap) ==
    IF ParseUsize(name) = 0 THEN whole
    ELSE IF ParseUsize(name) = 1 THEN cap
    ELSE << >>

\* Captures::expand, first pass: each `$name` that is not behind another '$'
\* is replaced by its group
RECURSIVE ExpandNames(_, _, _, _)
ExpandNames(r, i, whole, cap) ==
    IF i > Len(r) THEN << >>
    ELSE IF /\ r[i] = DOLLAR
            /\ (i = 1 \/ r[i - 1] # DOLLAR)
            /\ i < Len(r)
            /\ IsWord(r[i + 1])
    THEN Group(SubSeq(r, i + 1, WordEnd(r, i + 1)), whole, cap)
           \o ExpandNames(r, WordEnd(r, i + 1) + 1, whole, cap)
    ELSE << r[i] >> \o ExpandNames(r, i + 1, whole, cap)

\* second pass: each `$$` becomes `$`
RECURSIVE Unescape(_, _)
Unescape(r, i) ==
    IF i > Len(r) THEN << >>
    ELSE IF r[i] = DOLLAR /\ i < Len(r) /\ r[i + 1] = DOLLAR
    THEN << DOLLAR >> \o Unescape(r, i + 2)
    ELSE << r[i] >> \o Unescape(r, i + 1)

\* re.replace(text, file_name) with file_name a &str: the replacement string is
\* expanded, not inserted as it is
Expand(r, whole, cap) == Unescape(ExpandNames(r, 1, whole, cap), 1)

\* s with the match that starts at a and has its separator at p replaced by the
\* expansion of group 1
Splice(s, a, p) ==
    LET e == HashFrom(s, p + 1)
        cap == SubSeq(s, p + 1, e - 1)
    IN  Prefix(s, a - 1) \o Expand(cap, SubSeq(s, a, e + 3), cap) \o Suffix(s, e + 4)

ReplacePath(s) ==
    IF FirstMatch(s, 1) = 0 THEN s
    ELSE Splice(s, FirstMatch(s, 1), BestSep(s, FirstMatch(s, 1), Len(s)))

(***************************************************************************)
(* State.                                                                  *)
(***************************************************************************)
VARIABLES
    kind,       \* the Transport behind the appender: "console", "file", "tcp"
    encoder,    \* "pattern": a PatternEncoder; "custom": any other Encode
    app,        \* life of the AsyncAppender: "unbuilt", "live", then the steps of drop
    spawned,    \* number of worker threads spawned so far
    chan,       \* the mpsc channel: events sent and not yet received
    workerPc,   \* "none", "recv", "writing", "done", "panicked"
    cur,        \* the Log message the worker is handling (id 0: none)
    sink,       \* the bytes the Transport has put on its stream / file
    calls,      \* history: the buffers passed to sync_write, in call order
    returns,    \* history: what each finished sync_write returned and put on the sink
    dequeued,   \* history: ids of the Log events the worker took off the channel
    pc,         \* per producer: "idle" or "encoded" (inside append, before the send)
    pending,    \* per producer: the event its append is about to send
    result,     \* per producer: what its last append returned
    enq,        \* history: ids of the Log events in the order they were enqueued
    owner,      \* history: owner[id] is the thread whose append made message id
    nextId,     \* number of append calls started so far, plus one
    \* the log server at the far end of a TCP transport
    written,    \* the messages the logging side writes to the stream, in order
    sent,       \* how many of them its sync_write has put on the stream
    wire,       \* bytes on the connection that the server has not read yet
    read_buf,   \* the server's read_buf
    search_frm_index,  \* the server's search_frm_index (an offset into read_buf)
    log_msgs,   \* the server's log_msgs
    srv,        \* the server thread: "run" or "panicked"
    split,      \* history: some read ended in the middle of a terminator
    \* the process-wide initialisation of the logger
    INITIALISE_LOGGER,  \* the Once: "incomplete", "running", "complete", "poisoned"
    ipc,        \* per caller: "idle", "body", "blocked", "returned", "panicked"
    init_result,  \* per caller: what its init function returned
    body_fn,    \* the init function whose closure is, or was, run by call_once
    bodies,     \* history: the callers whose closure call_once has run
    overlapped, \* history: the callers that entered call_once while a closure ran
    built,      \* number of appenders constructed by init functions
    installed,  \* number of times a logger was installed as the global logger
    rust_log,   \* the RUST_LOG variable: "ok" (unset or well-formed), "malformed"
    config_file,  \* whether log.toml exists beside the executable
    \* one appender made from a configuration by a Creator, and its Transport
    revision,   \* the source file of the Creator: "log/async_log.rs", "async_log.rs"
    creator,    \* "console", "file", "tcp", "web_socket"
    config,     \* the configuration map: per key "absent", "wrong" (type) or a value
    dstate,     \* deserialize: "start", "in_new" (inside WebSocket::new), "done"
    dresult,    \* what deserialize returned: "none", "ok" or the error
    handler_ran,  \* FileHandler::new was called to establish the log file path
    opens,      \* number of times the builder tried to open the log file
    connects,   \* number of TCP connections the builder tried to make
    workers,    \* number of AsyncAppender::new calls (each spawns a worker)
    b_append,   \* the append flag the file builder was given
    b_no_delay, \* the no_delay flag the TCP stream was given
    prior,      \* history: what the destination held before the appender was made
    dest,       \* what the destination holds: the file, or the stream so far
    file_mode,  \* how the file is open: "closed", "append", "write"
    cursor,     \* offset of the next write of a file that is not in append mode
    puts,       \* history: the bytes this Transport has put on the destination
    ws_thread,  \* the WebSocketLogger thread: "none", "connecting", "open", "ended"
    ws_chan,    \* the channel from that thread to WebSocket::new
    ws_opened,  \* history: on_open was called (the handshake completed)
    ws_queue,   \* frames given to ws_tx.send that the event loop has not sent yet
    wreturns,   \* history: result of each sync_write, and what was unsent at its return
    ws_drop,    \* the WebSocket transport: "live", "closing" (inside its drop), "dropped"
    pattern_id, \* the id written into the encoder's pattern (0: the pattern has none)
    emitted,    \* history: the id carried by each message given to sync_write
    \* threads managed by a Joiner, whose bodies call log_or_panic!
    testing,    \* cfg!(any(test, feature = "testing")) of the build
    tstate,     \* per managed thread: "running", "unwinding", "done", "panicked", "aborted"
    ncalls,     \* per managed thread: log_or_panic! calls its body has made
    helper,     \* per managed thread: it owns a value whose Drop calls log_or_panic!
    lop,        \* history: the log_or_panic! calls: thread, panicking at the call, outcome
    handle,     \* per Joiner: its field joiner, "some" or "none"
    jstate,     \* per Joiner: "held", "dropping" (inside drop), "dropped", "drop_panicked"
    detached,   \* history: detach was called on the Joiner
    joined,     \* history: join was called on the thread's JoinHandle
    waited,     \* history: drop was entered while the thread was still running
    \* EventSenders and the observer thread that owns the receivers
    obs,        \* the observer: "running", "stopping" (dropping receivers), "gone"
    rx_alive,   \* per channel ("category", "ui", "network"): its Receiver is not dropped
    ev_chan,    \* per event subset: the events sent and not yet received
    cat_chan,   \* the category channel: categories sent and not yet received
    observed,   \* history: the events the observer received, in order
    spc,        \* per EventSender: "idle" or "mid" (inside send: event sent, category not yet)
    sev,        \* per EventSender: the event of the send in progress
    sstart,     \* per EventSender: every receiver was dropped when the send began
    sends,      \* history: the finished sends and what they returned
    nsends,     \* number of sends begun
    \* SeededRng and its statics
    SEED,       \* the static seed: NoSeed (None) or the seed it was set to
    seed_poisoned,  \* the Mutex of SEED is poisoned
    ALREADY_PRINTED,  \* the static AtomicBool
    printed,    \* history: number of times a drop printed the seed
    seed_sets,  \* history: the values SEED was assigned, in order
    rstate,     \* per thread: "running", "unwinding", "panicked"
    rngs,       \* per thread: the SeededRngs it owns, newest last
    ncalls_new, \* history: the latest constructor call, if a new() that returned
    fcalls,     \* history: the latest constructor call, if a from_seed
    nrngs,      \* number of SeededRngs made so far
    draws,      \* number of draws made so far
    \* parse_loggers
    p_input,    \* the input string, as a sequence of characters
    p_result,   \* what parse_loggers returned for it, once it has been called
    \* the serialisation functions
    s_type,     \* the Rust type T the functions are instantiated with
    s_value,    \* the value given to serialise, as the sequence of its elements
    s_buf,      \* the bytes: the output of serialise, the input of deserialise
    s_phase,    \* "value" (to be serialised), "bytes" (to be deserialised), "done"
    s_via,      \* the function that made s_buf: "serialise", "serialise_into", "none"
    s_how,      \* the function that read s_buf: "deserialise", "deserialise_from", "none"
    s_res,      \* what that function returned
    \* the Log arm of the worker's loop, applied to one buffer
    w_in,       \* the buffer of the Log event, by its parts
    w_out       \* what the arm did with it, once it has run

serverVars == << written, sent, wire, read_buf, search_frm_index, log_msgs, srv, split >>

pipelineVars == << kind, encoder, app, spawned, chan, workerPc, cur, sink, calls, returns,
                   dequeued, pc, pending, result, enq, owner, nextId >>

loggerVars == << INITIALISE_LOGGER, ipc, init_result, body_fn, bodies, overlapped,
                 built, installed, rust_log, config_file >>

creatorVars == << revision, creator, config, dstate, dresult, handler_ran, opens,
                  connects, workers, b_append, b_no_delay, prior, dest, file_mode,
                  cursor, puts, ws_thread, ws_chan, ws_opened, ws_queue, wreturns,
                  ws_drop, pattern_id, emitted >>

joinerVars == << testing, tstate, ncalls, helper, lop, handle, jstate, detached,
                 joined, waited >>

\* the state of the utilities that are no part of logging
eventVars == << obs, rx_alive, ev_chan, cat_chan, observed, spc, sev, sstart, sends,
                nsends >>

rngVars == << SEED, seed_poisoned, ALREADY_PRINTED, printed, seed_sets, rstate, rngs,
              ncalls_new, fcalls, nrngs, draws >>

parseVars == << p_input, p_result >>

serialVars == << s_type, s_value, s_buf, s_phase, s_via, s_how, s_res >>

armVars == << w_in, w_out >>

utilVars == << joinerVars, eventVars, rngVars, parseVars, serialVars, armVars >>

\* the state outside the appender pipeline
outside == << serverVars, loggerVars, creatorVars, utilVars >>

notServer == << pipelineVars, loggerVars, creatorVars, utilVars >>

notLogger == << pipelineVars, serverVars, creatorVars, utilVars >>

notCreator == << pipelineVars, serverVars, loggerVars, utilVars >>

\* everything that is no part of the utilities
logging == << pipelineVars, serverVars, loggerVars, creatorVars >>

notJoiner == << logging, eventVars, rngVars, parseVars, serialVars, armVars >>

notEvents == << logging, joinerVars, rngVars, parseVars, serialVars, armVars >>

notRng == << logging, joinerVars, eventVars, parseVars, serialVars, armVars >>

notParse == << logging, joinerVars, eventVars, rngVars, serialVars, armVars >>

notSerial == << logging, joinerVars, eventVars, rngVars, parseVars, armVars >>

notArm == << logging, joinerVars, eventVars, rngVars, parseVars, serialVars >>

\* threads that call the init functions
Callers == {"c1", "c2", "c3"}

vars == << pipelineVars, outside >>

\* no log server is under observation
ServerIdle ==
    /\ written = << >>
    /\ sent = 0
    /\ wire = << >>
    /\ read_buf = << >>
    /\ search_frm_index = 0
    /\ log_msgs = << >>
    /\ srv = "run"
    /\ split = FALSE

\* no init function has been called
LoggerIdle ==
    /\ INITIALISE_LOGGER = "incomplete"
    /\ ipc = [t \in Callers |-> "idle"]
    /\ init_result = [t \in Callers |-> "none"]
    /\ body_fn = "none"
    /\ bodies = << >>
    /\ overlapped = {}
    /\ built = 0
    /\ installed = 0
    /\ rust_log = "ok"
    /\ config_file = FALSE

NoConfig == [target |-> "absent", file_timestamp |-> "absent", append |-> "absent",
             no_delay |-> "absent", pattern |-> "absent"]

\* nothing has been deserialized, no file is open, no thread runs
NothingBuilt ==
    /\ dstate = "start"
    /\ dresult = "none"
    /\ handler_ran = FALSE
    /\ opens = 0
    /\ connects = 0
    /\ workers = 0
    /\ b_append = "unset"
    /\ b_no_delay = "unset"
    /\ file_mode = "closed"
    /\ cursor = 0
    /\ puts = << >>
    /\ ws_thread = "none"
    /\ ws_chan = << >>
    /\ ws_opened = FALSE
    /\ ws_queue = << >>
    /\ wreturns = << >>
    /\ ws_drop = "live"
    /\ pattern_id = 0
    /\ emitted = << >>

\* no Creator is under observation
CreatorIdle ==
    /\ revision = "log/async_log.rs"
    /\ creator = "console"
    /\ config = NoConfig
    /\ prior = << >>
    /\ dest = << >>
    /\ NothingBuilt

\* Joiners that manage a thread
Joiners == {"j1", "j2"}

\* no Joiner is under observation
JoinerIdle ==
    /\ testing = FALSE
    /\ tstate = [j \in Joiners |-> "done"]
    /\ ncalls = [j \in Joiners |-> 0]
    /\ helper = [j \in Joiners |-> FALSE]
    /\ lop = {}
    /\ handle = [j \in Joiners |-> "none"]
    /\ jstate = [j \in Joiners |-> "dropped"]
    /\ detached = [j \in Joiners |-> FALSE]
    /\ joined = [j \in Joiners |-> FALSE]
    /\ waited = [j \in Joiners |-> FALSE]

\* the event subsets, each with its own channel and its own EventSender
Subsets == {"ui", "network"}

\* the EventSenders: one for each subset, and a clone of the first
Senders == {"ui", "ui_clone", "network"}

\* no EventSender is under observation
EventsIdle ==
    /\ obs = "gone"
    /\ rx_alive = [c \in Subsets \cup {"category"} |-> FALSE]
    /\ ev_chan = [c \in Subsets |-> << >>]
    /\ cat_chan = << >>
    /\ observed = << >>
    /\ spc = [s \in Senders |-> "idle"]
    /\ sev = [s \in Senders |-> "none"]
    /\ sstart = [s \in Senders |-> FALSE]
    /\ sends = {}
    /\ nsends = 0

\* threads that make and drop SeededRngs
RngThreads == {"r1", "r2"}

\* SEED holds None
NoSeed == 0

\* no SeededRng has been made
RngIdle ==
    /\ SEED = NoSeed
    /\ seed_poisoned = FALSE
    /\ ALREADY_PRINTED = FALSE
    /\ printed = 0
    /\ seed_sets = << >>
    /\ rstate = [t \in RngThreads |-> "running"]
    /\ rngs = [t \in RngThreads |-> << >>]
    /\ ncalls_new = {}
    /\ fcalls = {}
    /\ nrngs = 0
    /\ draws = 0

\* parse_loggers has nothing to parse
NotParsed == [ok |-> FALSE, level |-> "none", loggers |-> << >>]

ParseIdle ==
    /\ p_input = << >>
    /\ p_result = NotParsed

\* no function has returned yet
NoRes == [kind |-> "none", value |-> << >>]

\* nothing is being serialised
SerialIdle ==
    /\ s_type = "u8"
    /\ s_value = << >>
    /\ s_buf = << >>
    /\ s_phase = "done"
    /\ s_via = "none"
    /\ s_how = "none"
    /\ s_res = NoRes

NoInput == [marked |-> FALSE, head |-> << >>, path |-> << >>, tail |-> << >>]

NotRun == [ran |-> FALSE, written |-> FALSE, buf |-> << >>]

\* the arm is given no buffer
ArmIdle ==
    /\ w_in = NoInput
    /\ w_out = NotRun

UtilIdle == JoinerIdle /\ EventsIdle /\ RngIdle /\ ParseIdle /\ SerialIdle /\ ArmIdle

OutsideIdle == ServerIdle /\ LoggerIdle /\ CreatorIdle /\ UtilIdle

Kinds == {"console", "file", "tcp"}

NoMsg == [id |-> 0, msg |-> << >>]

LogEvent(i, m) == [type |-> "Log", id |-> i, msg |-> m]

TerminateEvent == [type |-> "Terminate", id |-> 0, msg |-> << >>]

\* the worker's end of the channel exists while the worker's closure runs
RxAlive == workerPc \in {"recv", "writing"}

\* the appender's Sender exists until drop has dropped the field tx
TxAlive == app \in {"live", "terminate_sent"}

(***************************************************************************)
(* The channel.                                                            *)
(***************************************************************************)
\* mpsc::channel() is unbounded: a send never waits for room
CanSend_Bounded(q) == Len(q) < 1
CanSend(q) == TRUE

\* Sender::send fails only when the Receiver has been dropped
SendFails_Never(alive, q) == FALSE
SendFails_WhenBusy(alive, q) == ~alive \/ Len(q) >= 1
SendFails(alive, q) == ~alive

\* append's send puts the Log event at the back of the queue
EnqueueLog_Front(q, e) == <<e>> \o q
EnqueueLog(q, e) == Append(q, e)

\* drop's send puts Terminate at the back of the queue
EnqueueTerminate_Twice(q) == q \o <<TerminateEvent, TerminateEvent>>
EnqueueTerminate_Front(q) == <<TerminateEvent>> \o q
EnqueueTerminate(q) == Append(q, TerminateEvent)

\* rx.iter() yields the oldest event
RecvIndex_Newest(q) == Len(q)
RecvIndex(q) == 1

RemoveAt_All(q, i) == << >>
RemoveAt(q, i) == SubSeq(q, 1, i - 1) \o SubSeq(q, i + 1, Len(q))

(***************************************************************************)
(* Construction: AsyncAppender::new makes the channel and spawns the       *)
(* worker thread.                                                          *)
(***************************************************************************)
New ==
    /\ app = "unbuilt"
    /\ UNCHANGED outside
    /\ app' = "live"
    /\ spawned' = spawned + 1
    /\ workerPc' = "recv"
    /\ chan' = << >>
    /\ UNCHANGED << kind, encoder, cur, sink, calls, returns, dequeued, pc, pending,
                    result, enq, owner, nextId >>

(***************************************************************************)
(* append: encode the record, then send the Log event.                     *)
(***************************************************************************)
\* what Encode::encode can do: leave bytes in the buffer and return Ok, or
\* return Err. A PatternEncoder writes formatted text; another implementation of
\* Encode may write any bytes.
Encoded(m) == [ok |-> TRUE, msg |-> m]

EncodeFailed == [ok |-> FALSE, msg |-> << >>]

EncoderOutputs(enc) ==
    IF enc = "pattern"
    THEN { Encoded(m) : m \in Texts } \cup { EncodeFailed }
    ELSE { Encoded(m) : m \in Texts \cup RawBufs } \cup { EncodeFailed }

AppendEncode(p) ==
    /\ app = "live"
    /\ UNCHANGED outside
    /\ pc[p] = "idle"
    /\ nextId <= MaxMsgs
    /\ \E out \in EncoderOutputs(encoder) :
         IF out.ok
         THEN /\ pc' = [pc EXCEPT ![p] = "encoded"]
              /\ pending' = [pending EXCEPT ![p] = [id |-> nextId, msg |-> out.msg]]
              /\ UNCHANGED result
         ELSE /\ result' = [result EXCEPT ![p] = "err_encode"]
              /\ UNCHANGED << pc, pending >>
    /\ nextId' = nextId + 1
    /\ owner' = Append(owner, p)
    /\ UNCHANGED << kind, encoder, app, spawned, chan, workerPc, cur, sink, calls,
                    returns, dequeued, enq >>

AppendSend_WritesItself(p) ==
    /\ pc[p] = "encoded"
    /\ UNCHANGED outside
    /\ CanSend(chan)
    /\ IF SendFails(RxAlive, chan)
       THEN /\ result' = [result EXCEPT ![p] = "err_send"]
            /\ UNCHANGED << chan, enq, calls, returns, sink >>
       ELSE /\ enq' = Append(enq, pending[p].id)
            /\ calls' = Append(calls, pending[p])
            /\ returns' = Append(returns, [res |-> "ok", put |-> pending[p].msg])
            /\ sink' = sink \o pending[p].msg
            /\ result' = [result EXCEPT ![p] = "ok"]
            /\ UNCHANGED chan
    /\ pc' = [pc EXCEPT ![p] = "idle"]
    /\ pending' = [pending EXCEPT ![p] = NoMsg]
    /\ UNCHANGED << kind, encoder, app, spawned, workerPc, cur, dequeued, owner, nextId >>

AppendSend(p) ==
    /\ pc[p] = "encoded"
    /\ UNCHANGED outside
    /\ CanSend(chan)
    /\ IF SendFails(RxAlive, chan)
       THEN /\ result' = [result EXCEPT ![p] = "err_send"]
            /\ UNCHANGED << chan, enq >>
       ELSE /\ chan' = EnqueueLog(chan, LogEvent(pending[p].id, pending[p].msg))
            /\ enq' = Append(enq, pending[p].id)
            /\ result' = [result EXCEPT ![p] = "ok"]
    /\ pc' = [pc EXCEPT ![p] = "idle"]
    /\ pending' = [pending EXCEPT ![p] = NoMsg]
    /\ UNCHANGED << kind, encoder, app, spawned, workerPc, cur, sink, calls, returns,
                    dequeued, owner, nextId >>

(***************************************************************************)
(* The Transports.  write_all either hands over all the bytes, or fails    *)
(* after handing over a proper prefix of them.                             *)
(***************************************************************************)
WriteAll(data) ==
    { [res |-> "ok", put |-> data] }
      \cup { [res |-> "err", put |-> Prefix(data, k)] : k \in 0..(Len(data) - 1) }

\* Stdout: lock, write_all, flush
SyncWriteStdout(buf) == WriteAll(buf)

\* File: write_all, flush
SyncWriteFile(buf) == WriteAll(buf)

\* TcpStream: write_all(buf)?, then write_all(MSG_TERMINATOR)
SyncWriteTcp_NoTerminator(buf) == WriteAll(buf)
SyncWriteTcp(buf) ==
    { r \in WriteAll(buf) : r.res = "err" }
      \cup { [res |-> t.res, put |-> buf \o t.put] : t \in WriteAll(MSG_TERMINATOR) }

SyncWrite(k, buf) ==
    IF k = "tcp" THEN SyncWriteTcp(buf)
    ELSE IF k = "file" THEN SyncWriteFile(buf)
    ELSE SyncWriteStdout(buf)

(***************************************************************************)
(* The worker thread: for event in rx.iter() { ... }                       *)
(***************************************************************************)
\* `let _ = writer.sync_write(&msg);` : the result is discarded, the loop goes on
OnWriteResult_Exit(res) == IF res = "err" THEN "done" ELSE "recv"
OnWriteResult_Panic(res) == IF res = "err" THEN "panicked" ELSE "recv"
OnWriteResult(res) == "recv"

\* the event rx.iter() yields next: the oldest one, or the end of the iteration
\* when the queue is empty and every Sender is gone
NextEvent(q) == IF q = << >> THEN [type |-> "Closed", id |-> 0, msg |-> << >>]
                ELSE q[RecvIndex(q)]

\* every buffer an encoder of the model can produce, with what String::from_utf8
\* and the rewrite make of it (evaluated once)
AllBufs == Texts \cup RawBufs

Utf8Bufs == { m \in AllBufs : IsUtf8(m) }

Rewritten == [ m \in AllBufs |-> ReplacePath(m) ]

\* a Log event is written only if its bytes are a String
Writes(e) == e.type = "Log" /\ e.msg \in Utf8Bufs

Handled(e) == [id |-> e.id, msg |-> Rewritten[e.msg]]

WorkerRecv ==
    /\ workerPc = "recv"
    /\ UNCHANGED outside
    /\ (chan # << >> \/ ~TxAlive)
    /\ chan' = IF chan = << >> THEN chan ELSE RemoveAt(chan, RecvIndex(chan))
    /\ workerPc' = IF NextEvent(chan).type # "Log" THEN "done"
                   ELSE IF Writes(NextEvent(chan)) THEN "writing" ELSE "recv"
    /\ dequeued' = IF NextEvent(chan).type = "Log"
                   THEN Append(dequeued, NextEvent(chan).id) ELSE dequeued
    /\ cur' = IF Writes(NextEvent(chan)) THEN Handled(NextEvent(chan)) ELSE cur
    /\ calls' = IF Writes(NextEvent(chan)) THEN Append(calls, Handled(NextEvent(chan)))
                ELSE calls
    /\ UNCHANGED << kind, encoder, app, spawned, sink, returns, pc, pending, result,
                    enq, owner, nextId >>

WorkerWriteReturn ==
    /\ workerPc = "writing"
    /\ UNCHANGED outside
    /\ \E out \in SyncWrite(kind, cur.msg) :
         /\ sink' = sink \o out.put
         /\ returns' = Append(returns, out)
         /\ workerPc' = OnWriteResult(out.res)
    /\ cur' = NoMsg
    /\ UNCHANGED << kind, encoder, app, spawned, chan, calls, dequeued, pc, pending,
                    result, enq, owner, nextId >>

(***************************************************************************)
(* Drop of the AsyncAppender: Drop::drop sends Terminate and ignores a     *)
(* failed send; then the fields are dropped in declaration order: encoder, *)
(* tx, and last the Joiner, whose drop joins the worker.                   *)
(***************************************************************************)
DropSendTerminate ==
    /\ app = "live"
    /\ UNCHANGED outside
    /\ \A p \in Threads : pc[p] = "idle"
    /\ CanSend(chan)
    /\ chan' = IF SendFails(RxAlive, chan) THEN chan ELSE EnqueueTerminate(chan)
    /\ app' = "terminate_sent"
    /\ UNCHANGED << kind, encoder, spawned, workerPc, cur, sink, calls, returns,
                    dequeued, pc, pending, result, enq, owner, nextId >>

DropTx ==
    /\ app = "terminate_sent"
    /\ UNCHANGED outside
    /\ app' = "tx_dropped"
    /\ UNCHANGED << kind, encoder, spawned, chan, workerPc, cur, sink, calls, returns,
                    dequeued, pc, pending, result, enq, owner, nextId >>

\* JoinHandle::join returns once the thread has finished
JoinReady_Detached(w) == TRUE
JoinReady(w) == w \in {"done", "panicked"}

\* Joiner::drop: unwrap_result!(joiner.join()) panics when the thread panicked
JoinerDrop ==
    /\ app = "tx_dropped"
    /\ UNCHANGED outside
    /\ JoinReady(workerPc)
    /\ app' = IF workerPc = "panicked" THEN "drop_panicked" ELSE "dropped"
    /\ UNCHANGED << kind, encoder, spawned, chan, workerPc, cur, sink, calls, returns,
                    dequeued, pc, pending, result, enq, owner, nextId >>

(***************************************************************************)
(* Specifications.                                                         *)
(***************************************************************************)
InitCommon ==
    /\ kind \in Kinds
    /\ app = "unbuilt"
    /\ spawned = 0
    /\ chan = << >>
    /\ workerPc = "none"
    /\ cur = NoMsg
    /\ sink = << >>
    /\ calls = << >>
    /\ returns = << >>
    /\ dequeued = << >>
    /\ pc = [p \in Threads |-> "idle"]
    /\ pending = [p \in Threads |-> NoMsg]
    /\ result = [p \in Threads |-> "none"]
    /\ enq = << >>
    /\ owner = << >>
    /\ nextId = 1

\* the appenders this crate builds: the encoder is always a pattern encoder
Init == InitCommon /\ encoder = "pattern" /\ OutsideIdle

\* an appender whose builder was given any implementation of Encode
InitAnyEncoder == InitCommon /\ encoder \in {"pattern", "custom"} /\ OutsideIdle

\* no appender is under observation
PipelineIdle == InitCommon /\ kind = "console" /\ encoder = "pattern"

Next ==
    \/ New
    \/ \E p \in Threads : AppendEncode(p)
    \/ \E p \in Threads : AppendSend(p)
    \/ WorkerRecv
    \/ WorkerWriteReturn
    \/ DropSendTerminate
    \/ DropTx
    \/ JoinerDrop

Spec == Init /\ [][Next]_vars

SpecAnyEncoder == InitAnyEncoder /\ [][Next]_vars

\* every thread that can run is eventually scheduled, and a sync_write that was
\* started returns
FairSpec ==
    /\ Init
    /\ [][Next]_vars
    /\ WF_vars(WorkerRecv)
    /\ WF_vars(WorkerWriteReturn)
    /\ WF_vars(DropTx)
    /\ WF_vars(JoinerDrop)

(***************************************************************************)
(* The log server of the server_logging tests: the far end of a TCP        *)
(* transport.  It reads whatever the connection delivers into read_buf and *)
(* cuts it at every MSG_TERMINATOR.                                        *)
(***************************************************************************)
\* number of messages the logging side writes
MaxFrames == 3

\* the worker hands post-processed pattern text to the transport
WrittenTexts == { Rewritten[m] : m \in Texts }

\* the bytes a sync_write of the TCP transport that returns Ok puts on the stream
OkPut(m) == (CHOOSE t \in SyncWriteTcp(m) : t.res = "ok").put

\* const MSG_COUNT: the number of messages the test sends
MSG_COUNT == Len(written)

\* read_buf[search_frm_index..].starts_with(&MSG_TERMINATOR), offsets from 0
StartsWithTerminator(buf, idx) ==
    SubSeq(buf, idx + 1, idx + Len(MSG_TERMINATOR)) = MSG_TERMINATOR

\* Vec::split_off(at): the elements from offset at on
SplitOff_OneEarly(buf, at) == SubSeq(buf, at, Len(buf))
SplitOff(buf, at) == SubSeq(buf, at + 1, Len(buf))

RECURSIVE Scan(_, _, _)
\* the inner while loop, run until fewer than three unscanned bytes are left;
\* unwrap!(str::from_utf8(..)) panics on a cut that is not UTF-8
Scan(buf, idx, msgs) ==
    IF Len(buf) - idx < Len(MSG_TERMINATOR)
    THEN [read_buf |-> buf, search_frm_index |-> idx, log_msgs |-> msgs, srv |-> "run"]
    ELSE IF StartsWithTerminator(buf, idx)
         THEN IF IsUtf8(Prefix(buf, idx))
              THEN Scan(SplitOff(buf, idx + Len(MSG_TERMINATOR)), 0,
                        Append(msgs, Prefix(buf, idx)))
              ELSE [read_buf |-> buf, search_frm_index |-> idx, log_msgs |-> msgs,
                    srv |-> "panicked"]
         ELSE Scan(buf, idx + 1, msgs)

\* the buffer ends with the first byte, or the first two bytes, of a terminator
EndsInsideTerminator(buf) ==
    \E k \in 1..(Len(MSG_TERMINATOR) - 1) :
        /\ Len(buf) >= k
        /\ SubSeq(buf, Len(buf) - k + 1, Len(buf)) = Prefix(MSG_TERMINATOR, k)

\* the logging side: one more sync_write of the TCP transport has returned Ok
TcpWrite ==
    /\ sent < Len(written)
    /\ sent' = sent + 1
    /\ wire' = wire \o OkPut(written[sent + 1])
    /\ UNCHANGED << written, read_buf, search_frm_index, log_msgs, srv, split >>
    /\ UNCHANGED notServer

\* one turn of the server's outer loop: stream.read returns bytes_rxd bytes,
\* they are added to read_buf, and read_buf is scanned
ServerRead ==
    /\ srv = "run"
    /\ Len(log_msgs) < MSG_COUNT
    /\ wire # << >>
    /\ \E bytes_rxd \in 1..Len(wire) :
         LET got == read_buf \o Prefix(wire, bytes_rxd)
             r == Scan(got, search_frm_index, log_msgs)
         IN  /\ wire' = Suffix(wire, bytes_rxd + 1)
             /\ read_buf' = r.read_buf
             /\ search_frm_index' = r.search_frm_index
             /\ log_msgs' = r.log_msgs
             /\ srv' = r.srv
             /\ split' = (split \/ EndsInsideTerminator(got))
    /\ UNCHANGED << written, sent >>
    /\ UNCHANGED notServer

InitServer ==
    /\ PipelineIdle
    /\ LoggerIdle
    /\ CreatorIdle
    /\ UtilIdle
    /\ written \in UNION { [1..n -> WrittenTexts] : n \in 1..MaxFrames }
    /\ sent = 0
    /\ wire = << >>
    /\ read_buf = << >>
    /\ search_frm_index = 0
    /\ log_msgs = << >>
    /\ srv = "run"
    /\ split = FALSE

NextServer ==
    \/ TcpWrite
    \/ ServerRead

SpecServer == InitServer /\ [][NextServer]_vars

(***************************************************************************)
(* The init functions: init, init_to_file, init_to_server and              *)
(* init_to_web_socket all run their body as the closure of                 *)
(* INITIALISE_LOGGER.call_once.                                            *)
(***************************************************************************)
InitFns == {"init", "init_to_file", "init_to_server", "init_to_web_socket"}

\* what the closure of an init function can do: the value it leaves in
\* `result` ("panic": it unwinds), the appenders it constructs, and whether it
\* installs the logger
Outcome(r, b, i) == [res |-> r, built |-> b, installed |-> i]

\* init: with a log.toml, log4rs::init_file; without, the console appender is
\* built, then parse_loggers_from_env().expect(..), then log4rs::init_config
BodyOfInit(env, cfg) ==
    IF cfg THEN { Outcome("ok", 1, 1), Outcome("err", 0, 0) }
    ELSE IF env = "malformed" THEN { Outcome("panic", 1, 0) }
    ELSE { Outcome("ok", 1, 1), Outcome("err", 1, 0) }

\* init_to_file, init_to_server, init_to_web_socket: parse_loggers_from_env
\* first (an error is returned), then the appender is built (an error is
\* returned), then log4rs::init_config
BodyOfInitTo(env) ==
    IF env = "malformed" THEN { Outcome("err", 0, 0) }
    ELSE { Outcome("err", 0, 0), Outcome("ok", 1, 1), Outcome("err", 1, 0) }

Body(f, env, cfg) == IF f = "init" THEN BodyOfInit(env, cfg) ELSE BodyOfInitTo(env)

\* Once::call_once as seen by a caller that arrives: it runs the closure, or
\* waits for the running one, or returns at once, or panics on a poisoned Once
CallOnce(once) ==
    IF once = "incomplete" THEN "body"
    ELSE IF once = "running" THEN "blocked"
    ELSE IF once = "complete" THEN "returned"
    ELSE "panicked"

\* a caller enters an init function: `let mut result = Err("Logger already
\* initialised")`, then INITIALISE_LOGGER.call_once(..)
InitCall(t) ==
    /\ ipc[t] = "idle"
    /\ \E f \in InitFns :
         LET to == CallOnce(INITIALISE_LOGGER) IN
         /\ ipc' = [ipc EXCEPT ![t] = to]
         /\ init_result' = [init_result EXCEPT ![t] =
                               IF to = "returned" THEN "already" ELSE "none"]
         /\ INITIALISE_LOGGER' = IF to = "body" THEN "running" ELSE INITIALISE_LOGGER
         /\ body_fn' = IF to = "body" THEN f ELSE body_fn
         /\ bodies' = IF to = "body" THEN Append(bodies, t) ELSE bodies
         /\ overlapped' = IF to = "blocked" THEN overlapped \cup {t} ELSE overlapped
    /\ UNCHANGED << built, installed, rust_log, config_file >>
    /\ UNCHANGED notLogger

\* the closure run by caller t comes to its end, or unwinds
BodyReturn(t) ==
    /\ ipc[t] = "body"
    /\ \E o \in Body(body_fn, rust_log, config_file) :
         /\ INITIALISE_LOGGER' = IF o.res = "panic" THEN "poisoned" ELSE "complete"
         /\ ipc' = [ipc EXCEPT ![t] = IF o.res = "panic" THEN "panicked" ELSE "returned"]
         /\ init_result' = [init_result EXCEPT ![t] =
                               IF o.res = "panic" THEN "none" ELSE o.res]
         /\ built' = built + o.built
         /\ installed' = installed + o.installed
    /\ UNCHANGED << body_fn, bodies, overlapped, rust_log, config_file >>
    /\ UNCHANGED notLogger

\* a caller that waited inside call_once is woken when the closure is over
Wake(t) ==
    /\ ipc[t] = "blocked"
    /\ INITIALISE_LOGGER \in {"complete", "poisoned"}
    /\ ipc' = [ipc EXCEPT ![t] = CallOnce(INITIALISE_LOGGER)]
    /\ init_result' = [init_result EXCEPT ![t] =
                          IF INITIALISE_LOGGER = "complete" THEN "already" ELSE "none"]
    /\ UNCHANGED << INITIALISE_LOGGER, body_fn, bodies, overlapped, built, installed,
                    rust_log, config_file >>
    /\ UNCHANGED notLogger

InitLogger ==
    /\ PipelineIdle
    /\ ServerIdle
    /\ CreatorIdle
    /\ UtilIdle
    /\ INITIALISE_LOGGER = "incomplete"
    /\ ipc = [t \in Callers |-> "idle"]
    /\ init_result = [t \in Callers |-> "none"]
    /\ body_fn = "none"
    /\ bodies = << >>
    /\ overlapped = {}
    /\ built = 0
    /\ installed = 0
    /\ rust_log \in {"ok", "malformed"}
    /\ config_file \in BOOLEAN

NextLogger ==
    \/ \E t \in Callers : InitCall(t)
    \/ \E t \in Callers : BodyReturn(t)
    \/ \E t \in Callers : Wake(t)

SpecLogger == InitLogger /\ [][NextLogger]_vars

(***************************************************************************)
(* The Creators: deserialize reads the keys of a configuration map, gives  *)
(* them to the appender's builder, and build opens the Transport and calls *)
(* AsyncAppender::new.                                                     *)
(***************************************************************************)
\* number of sync_write calls made on the Transport that was built
MaxWrites == 2

Revisions == {"log/async_log.rs", "async_log.rs"}

\* "XY": what a log file holds before the appender is made, if anything
PriorContents == { << >>, <<88, 89>> }

\* the configurations a Creator is given: keys it never looks at are left out
Configs(rev, cr) ==
    { c \in [target : {"absent", "wrong", "ok", "unparsable"},
             file_timestamp : {"absent", "wrong", "true", "false"},
             append : {"absent", "wrong", "true", "false"},
             no_delay : {"absent", "wrong", "true", "false"},
             pattern : {"absent", "wrong", "ok"}] :
        /\ (c.target = "unparsable") => (cr = "tcp")
        /\ (cr = "console") => (c.target = "absent")
        /\ (cr # "file" \/ rev = "async_log.rs") => (c.file_timestamp = "absent")
        /\ (cr # "file") => (c.append = "absent")
        /\ (cr # "tcp" \/ rev = "async_log.rs") => (c.no_delay = "absent") }

\* Some(Value::String(..)) / Some(_) / None of a key that is required
RequiredString_AbsentOk(v) == IF v = "wrong" THEN "ConfigError" ELSE "ok"
RequiredString(v) == IF v \in {"absent", "wrong"} THEN "ConfigError" ELSE "ok"

\* Some(Value::Bool(..)) / Some(_) / None of a key that has a default, and
\* parse_pattern's Some(Value::String(..)) / Some(_) / None
Optional_Unchecked(v) == "ok"
Optional(v) == IF v = "wrong" THEN "ConfigError" ELSE "ok"

\* `None => false` in log/async_log.rs, `None => true` in async_log.rs
DefaultAppend(rev) == IF rev = "log/async_log.rs" THEN "false" ELSE "true"

\* `None => true` in log/async_log.rs; async_log.rs calls set_nodelay(true)
DefaultNoDelay == "true"

OrDefault(v, d) == IF v = "absent" THEN d ELSE v

\* deserialize stops with an error; h: FileHandler::new had been called
Stop(e, h) == [res |-> e, handler |-> h, append |-> "unset", no_delay |-> "unset"]

\* deserialize goes on to build()
Build(h, a, n) == [res |-> "build", handler |-> h, append |-> a, no_delay |-> n]

ConsoleCreator(cfg) ==
    IF Optional(cfg.pattern) # "ok" THEN Stop("ConfigError", FALSE)
    ELSE Build(FALSE, "unset", "unset")

\* log/async_log.rs: output_file_name, file_timestamp, FileHandler::new,
\* append, pattern.  async_log.rs: path, append, pattern.
FileCreator(rev, cfg, fh_ok) ==
    IF RequiredString(cfg.target) # "ok" THEN Stop("ConfigError", FALSE)
    ELSE IF rev = "log/async_log.rs"
    THEN IF Optional(cfg.file_timestamp) # "ok" THEN Stop("ConfigError", FALSE)
         ELSE IF ~fh_ok THEN Stop("ConfigError", TRUE)
         ELSE IF Optional(cfg.append) # "ok" THEN Stop("ConfigError", TRUE)
         ELSE IF Optional(cfg.pattern) # "ok" THEN Stop("ConfigError", TRUE)
         ELSE Build(TRUE, OrDefault(cfg.append, DefaultAppend(rev)), "unset")
    ELSE IF Optional(cfg.append) # "ok" THEN Stop("ConfigError", FALSE)
         ELSE IF Optional(cfg.pattern) # "ok" THEN Stop("ConfigError", FALSE)
         ELSE Build(FALSE, OrDefault(cfg.append, DefaultAppend(rev)), "unset")

\* server_addr (SocketAddr::from_str(..)?), no_delay, pattern
ServerCreator(rev, cfg) ==
    IF RequiredString(cfg.target) # "ok" THEN Stop("ConfigError", FALSE)
    ELSE IF cfg.target = "unparsable" THEN Stop("AddrParseError", FALSE)
    ELSE IF Optional(cfg.no_delay) # "ok" THEN Stop("ConfigError", FALSE)
    ELSE IF Optional(cfg.pattern) # "ok" THEN Stop("ConfigError", FALSE)
    ELSE Build(FALSE, "unset", OrDefault(cfg.no_delay, DefaultNoDelay))

\* server_url, pattern
WebSockCreator(cfg) ==
    IF RequiredString(cfg.target) # "ok" THEN Stop("ConfigError", FALSE)
    ELSE IF Optional(cfg.pattern) # "ok" THEN Stop("ConfigError", FALSE)
    ELSE Build(FALSE, "unset", "unset")

Validate(rev, cr, cfg, fh_ok) ==
    IF cr = "console" THEN ConsoleCreator(cfg)
    ELSE IF cr = "file" THEN FileCreator(rev, cfg, fh_ok)
    ELSE IF cr = "tcp" THEN ServerCreator(rev, cfg)
    ELSE WebSockCreator(cfg)

\* AsyncFileAppenderBuilder::build.  log/async_log.rs: append(true), or
\* truncate(true).  async_log.rs: append(self.append), and no truncate.
OpenMode(a) == IF a = "true" THEN "append" ELSE "write"

Opened(rev, a, content) ==
    IF a = "true" THEN content
    ELSE IF rev = "log/async_log.rs" THEN << >>
    ELSE content

\* a write of bytes to the destination: at its end, or, for a file that is
\* not in append mode, at the cursor and over what is there
WriteAt(content, mode, at, bytes) ==
    IF mode = "write"
    THEN Prefix(content, at) \o bytes
           \o (IF at + Len(bytes) < Len(content)
               THEN Suffix(content, at + Len(bytes) + 1) ELSE << >>)
    ELSE content \o bytes

\* the one-shot channel of WebSocket::new has a Sender while the thread that
\* holds tx, its clone and the Client is running
WsSendersAlive_Leaked(th) == TRUE
WsSendersAlive(th) == th \in {"connecting", "open"}

\* sync_write of the WebSocket: ws_tx.send queues the frame for the event loop
\* of the WebSocketLogger thread, and fails when that loop is gone
SyncWriteWebSocket(th, buf) ==
    IF th = "open" THEN { [res |-> "ok", put |-> << >>, queued |-> TRUE] }
    ELSE { [res |-> "err", put |-> << >>, queued |-> FALSE] }

\* what one sync_write on the Transport of the appender can do
TransportWrite(cr, th, buf) ==
    IF cr = "web_socket" THEN SyncWriteWebSocket(th, buf)
    ELSE { [res |-> r.res, put |-> r.put, queued |-> FALSE] : r \in SyncWrite(cr, buf) }

\* what rand::random() can return
UniqueIds == {1, 2}

\* parse_pattern: a pattern of the configuration is taken as it is; without one
\* a web socket gets make_json_pattern(rand::random()), whose text holds the id
ParsePattern_NoId(cr, pat, unique_id) == 0
ParsePattern(cr, pat, unique_id) ==
    IF pat = "absent" /\ cr = "web_socket" THEN unique_id ELSE 0

\* Deserialize::deserialize of the Creator, with the build() it ends in; for a
\* web socket it goes as far as the rx.recv() of WebSocket::new
Deserialize ==
    /\ dstate = "start"
    /\ \E fh_ok \in BOOLEAN, io_ok \in BOOLEAN, unique_id \in UniqueIds :
         LET v == Validate(revision, creator, config, fh_ok)
             go == v.res = "build"
             made == go /\ (creator = "console" \/ (creator \in {"file", "tcp"} /\ io_ok))
         IN  /\ handler_ran' = v.handler
             /\ b_append' = v.append
             /\ opens' = IF go /\ creator = "file" THEN opens + 1 ELSE opens
             /\ connects' = IF go /\ creator = "tcp" THEN connects + 1 ELSE connects
             /\ b_no_delay' = IF made /\ creator = "tcp" THEN v.no_delay ELSE "unset"
             /\ file_mode' = IF made /\ creator = "file" THEN OpenMode(v.append)
                             ELSE file_mode
             /\ dest' = IF made /\ creator = "file" THEN Opened(revision, v.append, dest)
                        ELSE dest
             /\ workers' = IF made THEN workers + 1 ELSE workers
             /\ pattern_id' = IF go THEN ParsePattern(creator, config.pattern, unique_id)
                              ELSE 0
             /\ ws_thread' = IF go /\ creator = "web_socket" THEN "connecting" ELSE ws_thread
             /\ dstate' = IF go /\ creator = "web_socket" THEN "in_new" ELSE "done"
             /\ dresult' = IF ~go THEN v.res
                           ELSE IF creator = "web_socket" THEN "none"
                           ELSE IF made THEN "ok" ELSE "io_error"
    /\ UNCHANGED << revision, creator, config, prior, cursor, puts, ws_chan, ws_opened,
                    ws_queue, wreturns >>
    /\ UNCHANGED << ws_drop, emitted >>
    /\ UNCHANGED notCreator

\* Client::on_open: the handshake is over, the handle goes through the channel
WsOnOpen ==
    /\ ws_thread = "connecting"
    /\ ws_thread' = "open"
    /\ ws_opened' = TRUE
    /\ ws_chan' = Append(ws_chan, "Ok")
    /\ UNCHANGED << revision, creator, config, dstate, dresult, handler_ran, opens,
                    connects, workers, b_append, b_no_delay, prior, dest, file_mode,
                    cursor, puts, ws_queue, wreturns >>
    /\ UNCHANGED << ws_drop, pattern_id, emitted >>
    /\ UNCHANGED notCreator

\* ws::connect returns, before a handshake or after the connection is over:
\* Ok(()) sends nothing, Err(e) sends Err (`let _ =`: to a receiver that may be
\* gone); then the closure ends and its Senders are dropped
WsConnectReturns ==
    /\ ws_thread \in {"connecting", "open"}
    /\ ws_thread' = "ended"
    /\ \E r \in {"Ok", "Err"} :
         ws_chan' = IF r = "Err" /\ dstate = "in_new" THEN Append(ws_chan, "Err")
                    ELSE ws_chan
    /\ UNCHANGED << revision, creator, config, dstate, dresult, handler_ran, opens,
                    connects, workers, b_append, b_no_delay, prior, dest, file_mode,
                    cursor, puts, ws_opened, ws_queue, wreturns >>
    /\ UNCHANGED << ws_drop, pattern_id, emitted >>
    /\ UNCHANGED notCreator

\* `match rx.recv()` of WebSocket::new, and the rest of build(): a message is
\* there, or every Sender is gone
WsNewRecv_BuildsAnyway ==
    /\ dstate = "in_new"
    /\ (ws_chan # << >> \/ ~WsSendersAlive(ws_thread))
    /\ dstate' = "done"
    /\ dresult' = IF ws_chan # << >> /\ Head(ws_chan) = "Ok" THEN "ok" ELSE "io_error"
    /\ workers' = workers + 1
    /\ ws_chan' = IF ws_chan # << >> THEN Tail(ws_chan) ELSE ws_chan
    /\ UNCHANGED << revision, creator, config, handler_ran, opens, connects, b_append,
                    b_no_delay, prior, dest, file_mode, cursor, puts, ws_thread,
                    ws_opened, ws_queue, wreturns >>
    /\ UNCHANGED << ws_drop, pattern_id, emitted >>
    /\ UNCHANGED notCreator

WsNewRecv ==
    /\ dstate = "in_new"
    /\ (ws_chan # << >> \/ ~WsSendersAlive(ws_thread))
    /\ dstate' = "done"
    /\ dresult' = IF ws_chan # << >> /\ Head(ws_chan) = "Ok" THEN "ok" ELSE "io_error"
    /\ workers' = IF ws_chan # << >> /\ Head(ws_chan) = "Ok" THEN workers + 1 ELSE workers
    /\ ws_chan' = IF ws_chan # << >> THEN Tail(ws_chan) ELSE ws_chan
    /\ UNCHANGED << revision, creator, config, handler_ran, opens, connects, b_append,
                    b_no_delay, prior, dest, file_mode, cursor, puts, ws_thread,
                    ws_opened, ws_queue, wreturns >>
    /\ UNCHANGED << ws_drop, pattern_id, emitted >>
    /\ UNCHANGED notCreator

\* the worker of the appender calls sync_write on its Transport
TransportSyncWrite ==
    /\ dstate = "done"
    /\ dresult = "ok"
    /\ Len(wreturns) < MaxWrites
    /\ ws_drop = "live"
    /\ emitted' = Append(emitted, pattern_id)
    /\ \E buf \in WrittenTexts :
         \E o \in TransportWrite(creator, ws_thread, buf) :
           /\ dest' = WriteAt(dest, file_mode, cursor, o.put)
           /\ cursor' = IF file_mode = "write" THEN cursor + Len(o.put) ELSE cursor
           /\ puts' = puts \o o.put
           /\ ws_queue' = IF o.queued THEN Append(ws_queue, buf) ELSE ws_queue
           /\ wreturns' = Append(wreturns,
                                 [res |-> o.res, buf |-> buf, put |-> o.put,
                                  unsent |-> IF o.queued THEN Len(ws_queue) + 1 ELSE 0])
    /\ UNCHANGED << revision, creator, config, dstate, dresult, handler_ran, opens,
                    connects, workers, b_append, b_no_delay, prior, file_mode,
                    ws_thread, ws_chan, ws_opened >>
    /\ UNCHANGED << ws_drop, pattern_id >>
    /\ UNCHANGED notCreator

\* the event loop of the WebSocketLogger thread sends the oldest queued frame
WsLoopSend ==
    /\ ws_thread = "open"
    /\ ws_queue # << >>
    /\ dest' = dest \o Head(ws_queue)
    /\ puts' = puts \o Head(ws_queue)
    /\ ws_queue' = Tail(ws_queue)
    /\ UNCHANGED << revision, creator, config, dstate, dresult, handler_ran, opens,
                    connects, workers, b_append, b_no_delay, prior, file_mode, cursor,
                    ws_thread, ws_chan, ws_opened, wreturns >>
    /\ UNCHANGED << ws_drop, pattern_id, emitted >>
    /\ UNCHANGED notCreator

\* the close frame, by its code: CloseCode::Normal
CLOSE_NORMAL == <<1000>>

\* ws_tx.close puts the close behind the frames given to ws_tx.send before it
QueueClose_First(q) == <<CLOSE_NORMAL>> \o q
QueueClose(q) == Append(q, CLOSE_NORMAL)

\* Drop::drop of the WebSocket, when the worker of its appender has ended:
\* `let _ = self.ws_tx.close(CloseCode::Normal)` fails, and is ignored, when
\* the event loop is gone
WsDrop ==
    /\ creator = "web_socket"
    /\ dstate = "done"
    /\ dresult = "ok"
    /\ ws_drop = "live"
    /\ ws_drop' = "closing"
    /\ ws_queue' = IF ws_thread = "open" THEN QueueClose(ws_queue) ELSE ws_queue
    /\ UNCHANGED << revision, creator, config, dstate, dresult, handler_ran, opens,
                    connects, workers, b_append, b_no_delay, prior, dest, file_mode,
                    cursor, puts, ws_thread, ws_chan, ws_opened, wreturns, pattern_id,
                    emitted >>
    /\ UNCHANGED notCreator

\* then the field _raii_joiner is dropped: the Joiner joins the WebSocketLogger
\* thread, and join returns once that thread has finished
WsDropJoin ==
    /\ ws_drop = "closing"
    /\ ws_thread = "ended"
    /\ ws_drop' = "dropped"
    /\ UNCHANGED << revision, creator, config, dstate, dresult, handler_ran, opens,
                    connects, workers, b_append, b_no_delay, prior, dest, file_mode,
                    cursor, puts, ws_thread, ws_chan, ws_opened, ws_queue, wreturns,
                    pattern_id, emitted >>
    /\ UNCHANGED notCreator

InitCreator ==
    /\ PipelineIdle
    /\ ServerIdle
    /\ LoggerIdle
    /\ UtilIdle
    /\ revision \in Revisions
    /\ creator \in {"console", "file", "tcp", "web_socket"}
    /\ (creator = "web_socket") => (revision = "log/async_log.rs")
    /\ config \in Configs(revision, creator)
    /\ prior \in PriorContents
    /\ (creator # "file") => (prior = << >>)
    /\ dest = prior
    /\ NothingBuilt

NextCreator ==
    \/ Deserialize
    \/ WsOnOpen
    \/ WsConnectReturns
    \/ WsNewRecv
    \/ TransportSyncWrite
    \/ WsLoopSend
    \/ WsDrop
    \/ WsDropJoin

SpecCreator == InitCreator /\ [][NextCreator]_vars

\* WebSocket::new is scheduled when its rx.recv() can return
FairSpecCreator == SpecCreator /\ WF_vars(WsNewRecv)

(***************************************************************************)
(* Joiner (src/thread.rs) and log_or_panic! (src/log_or_panic.rs): each    *)
(* Joiner manages one thread; the thread's body calls log_or_panic! and    *)
(* may own a value whose Drop calls it again while the thread unwinds.     *)
(***************************************************************************)
\* log_or_panic! calls made by the body of one managed thread
MaxCalls == 2

\* the macro: panic when built for testing and not already panicking, else error!
LogOrPanic_Always(test, panicking) == IF test THEN "panic" ELSE "log"
LogOrPanic(test, panicking) == IF test /\ ~panicking THEN "panic" ELSE "log"

\* what a panic started in thread state t leads to: a panic while unwinding aborts
PanicFrom(t) == IF t = "unwinding" THEN "aborted" ELSE "unwinding"

\* the body of thread j calls log_or_panic!
ThreadLogOrPanic(j) ==
    /\ tstate[j] = "running"
    /\ ncalls[j] < MaxCalls
    /\ ncalls' = [ncalls EXCEPT ![j] = @ + 1]
    /\ lop' = lop \cup {[thread |-> j, panicking |-> FALSE,
                         outcome |-> LogOrPanic(testing, FALSE)]}
    /\ tstate' = [tstate EXCEPT ![j] =
                    IF LogOrPanic(testing, FALSE) = "panic" THEN PanicFrom(@) ELSE @]
    /\ UNCHANGED << testing, helper, handle, jstate, detached, joined, waited >>
    /\ UNCHANGED notJoiner

\* the body of thread j returns; its locals are dropped, and the Drop of the
\* helper calls log_or_panic! on a thread that is not panicking
ThreadReturn(j) ==
    /\ tstate[j] = "running"
    /\ helper' = [helper EXCEPT ![j] = FALSE]
    /\ lop' = IF helper[j]
              THEN lop \cup {[thread |-> j, panicking |-> FALSE,
                              outcome |-> LogOrPanic(testing, FALSE)]}
              ELSE lop
    /\ tstate' = [tstate EXCEPT ![j] =
                    IF helper[j] /\ LogOrPanic(testing, FALSE) = "panic"
                    THEN PanicFrom(@) ELSE "done"]
    /\ UNCHANGED << testing, ncalls, handle, jstate, detached, joined, waited >>
    /\ UNCHANGED notJoiner

\* thread j unwinds: the Drop of its helper calls log_or_panic! while panicking
ThreadUnwindDrop(j) ==
    /\ tstate[j] = "unwinding"
    /\ helper[j]
    /\ helper' = [helper EXCEPT ![j] = FALSE]
    /\ lop' = lop \cup {[thread |-> j, panicking |-> TRUE,
                         outcome |-> LogOrPanic(testing, TRUE)]}
    /\ tstate' = [tstate EXCEPT ![j] =
                    IF LogOrPanic(testing, TRUE) = "panic" THEN PanicFrom(@) ELSE @]
    /\ UNCHANGED << testing, ncalls, handle, jstate, detached, joined, waited >>
    /\ UNCHANGED notJoiner

\* thread j has unwound: it ends with a panic
ThreadUnwindEnd(j) ==
    /\ tstate[j] = "unwinding"
    /\ ~helper[j]
    /\ tstate' = [tstate EXCEPT ![j] = "panicked"]
    /\ UNCHANGED << testing, ncalls, helper, lop, handle, jstate, detached, joined,
                    waited >>
    /\ UNCHANGED notJoiner

ThreadStep(j) ==
    \/ ThreadLogOrPanic(j)
    \/ ThreadReturn(j)
    \/ ThreadUnwindDrop(j)
    \/ ThreadUnwindEnd(j)

\* self.joiner.take(): what is left in the field
Take_Kept(h) == h
Take(h) == "none"

\* Drop for Joiner is entered with field h: with Some it joins, with None it returns
DropEnters(h) == IF h = "some" THEN "dropping" ELSE "dropped"

\* Joiner::detach: takes the handle out and drops it unjoined; self is then
\* dropped with the field as the take left it
Detach(j) ==
    /\ jstate[j] = "held"
    /\ detached' = [detached EXCEPT ![j] = TRUE]
    /\ handle' = [handle EXCEPT ![j] = Take(@)]
    /\ jstate' = [jstate EXCEPT ![j] = DropEnters(Take(handle[j]))]
    /\ waited' = [waited EXCEPT ![j] =
                    DropEnters(Take(handle[j])) = "dropping" /\ ~JoinReady(tstate[j])]
    /\ UNCHANGED << testing, tstate, ncalls, helper, lop, joined >>
    /\ UNCHANGED notJoiner

\* Drop for Joiner is entered: it takes the handle and calls join on it
DropBegin(j) ==
    /\ jstate[j] = "held"
    /\ handle' = [handle EXCEPT ![j] = "none"]
    /\ jstate' = [jstate EXCEPT ![j] = DropEnters(handle[j])]
    /\ waited' = [waited EXCEPT ![j] = ~JoinReady(tstate[j])]
    /\ UNCHANGED << testing, tstate, ncalls, helper, lop, detached, joined >>
    /\ UNCHANGED notJoiner

\* join returns, and drop with it; unwrap_result! panics on the Err of a thread
\* that panicked
DropJoin_NoWait(j) ==
    /\ jstate[j] = "dropping"
    /\ joined' = [joined EXCEPT ![j] = TRUE]
    /\ jstate' = [jstate EXCEPT ![j] =
                    IF tstate[j] = "panicked" THEN "drop_panicked" ELSE "dropped"]
    /\ UNCHANGED << testing, tstate, ncalls, helper, lop, handle, detached, waited >>
    /\ UNCHANGED notJoiner
DropJoin(j) ==
    /\ jstate[j] = "dropping"
    /\ JoinReady(tstate[j])
    /\ joined' = [joined EXCEPT ![j] = TRUE]
    /\ jstate' = [jstate EXCEPT ![j] =
                    IF tstate[j] = "panicked" THEN "drop_panicked" ELSE "dropped"]
    /\ UNCHANGED << testing, tstate, ncalls, helper, lop, handle, detached, waited >>
    /\ UNCHANGED notJoiner

InitJoiner ==
    /\ PipelineIdle
    /\ ServerIdle
    /\ LoggerIdle
    /\ CreatorIdle
    /\ EventsIdle
    /\ RngIdle
    /\ ParseIdle
    /\ SerialIdle
    /\ ArmIdle
    /\ testing \in BOOLEAN
    /\ tstate = [j \in Joiners |-> "running"]
    /\ ncalls = [j \in Joiners |-> 0]
    /\ helper \in [Joiners -> BOOLEAN]
    /\ lop = {}
    /\ handle = [j \in Joiners |-> "some"]
    /\ jstate = [j \in Joiners |-> "held"]
    /\ detached = [j \in Joiners |-> FALSE]
    /\ joined = [j \in Joiners |-> FALSE]
    /\ waited = [j \in Joiners |-> FALSE]

NextJoiner ==
    \E j \in Joiners :
        \/ ThreadLogOrPanic(j)
        \/ ThreadReturn(j)
        \/ ThreadUnwindDrop(j)
        \/ ThreadUnwindEnd(j)
        \/ Detach(j)
        \/ DropBegin(j)
        \/ DropJoin(j)

SpecJoiner == InitJoiner /\ [][NextJoiner]_vars

\* a spawned thread that can take a step is scheduled
FairSpecJoiner == SpecJoiner /\ \A j \in Joiners : WF_vars(ThreadStep(j))

(***************************************************************************)
(* EventSender (src/event_sender.rs): one EventSender per event subset,    *)
(* all sharing the category channel; the observer thread of the tests owns *)
(* the three receivers, and drops them when it stops on UiEvent::Terminate.*)
(***************************************************************************)
\* sends begun over the life of the channels
MaxSends == 3

\* the events of each subset
Events(c) == IF c = "ui" THEN {"CreateDirectory", "Terminate"} ELSE {"Connected"}

\* every receiver has been dropped
AllRxGone == \A c \in Subsets \cup {"category"} : ~rx_alive[c]

\* EventSenderError::EventSubset(error): the SendError holds the event given to send
SubsetError_Lost(e) == [kind |-> "EventSubset", carried |-> "none"]
SubsetError(e) == [kind |-> "EventSubset", carried |-> e]

\* EventSenderError::Category(error): the SendError holds the category
CategoryError(c) == [kind |-> "Category", carried |-> c]

\* the category an EventSender was made with; a clone has its original's
CategoryOf(s) == IF s = "network" THEN "network" ELSE "ui"

Finish(s, e, r) ==
    [sender |-> s, event |-> e, gone |-> sstart[s], running |-> obs = "running",
     kind |-> r.kind, carried |-> r.carried]

\* send, first half: self.event_tx.send(event), which fails when the receiver
\* of the event channel has been dropped
SendEvent_TokenOnly(s, e) ==
    /\ spc[s] = "idle"
    /\ nsends < MaxSends
    /\ nsends' = nsends + 1
    /\ IF rx_alive[CategoryOf(s)]
       THEN /\ UNCHANGED ev_chan
            /\ spc' = [spc EXCEPT ![s] = "mid"]
            /\ sev' = [sev EXCEPT ![s] = e]
            /\ sstart' = [sstart EXCEPT ![s] = AllRxGone]
            /\ UNCHANGED sends
       ELSE /\ sends' = sends \cup
                  {[Finish(s, e, SubsetError(e)) EXCEPT !.gone = AllRxGone]}
            /\ UNCHANGED << ev_chan, spc, sev, sstart >>
    /\ UNCHANGED << obs, rx_alive, cat_chan, observed >>
    /\ UNCHANGED notEvents

SendEvent(s, e) ==
    /\ spc[s] = "idle"
    /\ nsends < MaxSends
    /\ nsends' = nsends + 1
    /\ IF rx_alive[CategoryOf(s)]
       THEN /\ ev_chan' = [ev_chan EXCEPT ![CategoryOf(s)] = Append(@, e)]
            /\ spc' = [spc EXCEPT ![s] = "mid"]
            /\ sev' = [sev EXCEPT ![s] = e]
            /\ sstart' = [sstart EXCEPT ![s] = AllRxGone]
            /\ UNCHANGED sends
       ELSE /\ sends' = sends \cup
                  {[Finish(s, e, SubsetError(e)) EXCEPT !.gone = AllRxGone]}
            /\ UNCHANGED << ev_chan, spc, sev, sstart >>
    /\ UNCHANGED << obs, rx_alive, cat_chan, observed >>
    /\ UNCHANGED notEvents

\* send, second half: self.event_category_tx.send(self.event_category.clone())
SendCategory(s) ==
    /\ spc[s] = "mid"
    /\ spc' = [spc EXCEPT ![s] = "idle"]
    /\ sev' = [sev EXCEPT ![s] = "none"]
    /\ IF rx_alive["category"]
       THEN /\ cat_chan' = Append(cat_chan, CategoryOf(s))
            /\ sends' = sends \cup {Finish(s, sev[s], [kind |-> "Ok", carried |-> "none"])}
       ELSE /\ sends' = sends \cup {Finish(s, sev[s], CategoryError(CategoryOf(s)))}
            /\ UNCHANGED cat_chan
    /\ UNCHANGED << obs, rx_alive, ev_chan, observed, sstart, nsends >>
    /\ UNCHANGED notEvents

\* the observer takes a category off the category channel and does try_recv
\* on the event channel of that category; UiEvent::Terminate makes it break
ObserverRecv ==
    /\ obs = "running"
    /\ cat_chan # << >>
    /\ cat_chan' = Tail(cat_chan)
    /\ LET c == Head(cat_chan) IN
         IF ev_chan[c] # << >>
         THEN /\ ev_chan' = [ev_chan EXCEPT ![c] = Tail(@)]
              /\ observed' = Append(observed, Head(ev_chan[c]))
              /\ obs' = IF Head(ev_chan[c]) = "Terminate" THEN "stopping" ELSE obs
         ELSE UNCHANGED << ev_chan, observed, obs >>
    /\ UNCHANGED << rx_alive, spc, sev, sstart, sends, nsends >>
    /\ UNCHANGED notEvents

\* the observer's closure has ended: one of the receivers it owns is dropped,
\* and what its channel still held is dropped with it
ObserverDropRx(c) ==
    /\ obs = "stopping"
    /\ rx_alive[c]
    /\ rx_alive' = [rx_alive EXCEPT ![c] = FALSE]
    /\ IF c = "category"
       THEN cat_chan' = << >> /\ UNCHANGED ev_chan
       ELSE ev_chan' = [ev_chan EXCEPT ![c] = << >>] /\ UNCHANGED cat_chan
    /\ obs' = IF \A d \in (Subsets \cup {"category"}) \ {c} : ~rx_alive[d]
              THEN "gone" ELSE obs
    /\ UNCHANGED << observed, spc, sev, sstart, sends, nsends >>
    /\ UNCHANGED notEvents

InitEvents ==
    /\ PipelineIdle
    /\ ServerIdle
    /\ LoggerIdle
    /\ CreatorIdle
    /\ JoinerIdle
    /\ RngIdle
    /\ ParseIdle
    /\ SerialIdle
    /\ ArmIdle
    /\ obs = "running"
    /\ rx_alive = [c \in Subsets \cup {"category"} |-> TRUE]
    /\ ev_chan = [c \in Subsets |-> << >>]
    /\ cat_chan = << >>
    /\ observed = << >>
    /\ spc = [s \in Senders |-> "idle"]
    /\ sev = [s \in Senders |-> "none"]
    /\ sstart = [s \in Senders |-> FALSE]
    /\ sends = {}
    /\ nsends = 0

NextEvents ==
    \/ \E s \in Senders : \E e \in Events(CategoryOf(s)) : SendEvent(s, e)
    \/ \E s \in Senders : SendCategory(s)
    \/ ObserverRecv
    \/ \E c \in Subsets \cup {"category"} : ObserverDropRx(c)

SpecEvents == InitEvents /\ [][NextEvents]_vars

(***************************************************************************)
(* SeededRng (src/seeded_rng.rs): the static SEED behind its Mutex, the    *)
(* static ALREADY_PRINTED, and threads that make SeededRngs, draw from     *)
(* them, derive child generators, drop them, and panic.                    *)
(***************************************************************************)
\* the seeds that rand::random() yields and that callers pass to from_seed
Seeds == {1, 2}

\* SeededRngs made over the run, by new, from_seed and new_rng
MaxRngs == 4

\* draws made over the run
MaxDraws == 2

\* the generator's state space (XorShiftRng is deterministic in its seed)
RngMod == 16

\* XorShiftRng::from_seed(seed): the state of the generator
XorShiftFromSeed(seed) == seed % RngMod

\* one draw from a generator in state x: the next state, which is also the output
XorShiftNext(x) == (5 * x + 3) % RngMod

\* the seed that new_rng makes of four successive draws from state x
ChildSeed(x) ==
    LET a == XorShiftNext(x)
        b == XorShiftNext(a)
        c == XorShiftNext(b)
        d == XorShiftNext(c)
    IN  (a + 2 * b + 3 * c + 5 * d) % RngMod

\* the state of a generator after the four draws of new_rng
AfterFour(x) == XorShiftNext(XorShiftNext(XorShiftNext(XorShiftNext(x))))

\* new(): the current seed when there is one, else the fresh random seed
SeedFor_Fresh(current, fresh) == fresh
SeedFor(current, fresh) == IF current # NoSeed THEN current ELSE fresh

\* from_seed: the static seed is initialised to a value different from seed
Mismatch_Ignored(current, seed) == FALSE
Mismatch(current, seed) == current # NoSeed /\ current # seed

\* ALREADY_PRINTED.compare_and_swap(false, true): the previous value
CompareAndSwap_Stale(current) == FALSE
CompareAndSwap(current) == current

\* a SeededRng fresh from a constructor
Root(seed) ==
    [state |-> XorShiftFromSeed(seed), path |-> << "root" >>, outs |-> << >>]

Top(t) == rngs[t][Len(rngs[t])]

Pop(q) == SubSeq(q, 1, Len(q) - 1)

\* SeededRng::new() on thread t; unwrap!(SEED.lock()) panics on a poisoned Mutex
RngNew(t) ==
    /\ rstate[t] = "running"
    /\ nrngs < MaxRngs
    /\ IF seed_poisoned
       THEN /\ rstate' = [rstate EXCEPT ![t] = "unwinding"]
            /\ ncalls_new' = {}
            /\ UNCHANGED << SEED, seed_sets, rngs, nrngs >>
       ELSE \E fresh \in Seeds :
              LET seed == SeedFor(SEED, fresh) IN
                /\ SEED' = IF SEED = NoSeed THEN fresh ELSE SEED
                /\ seed_sets' = IF SEED = NoSeed THEN Append(seed_sets, fresh)
                                ELSE seed_sets
                /\ rngs' = [rngs EXCEPT ![t] = Append(@, Root(seed))]
                /\ ncalls_new' =
                       {[before |-> SEED, seeded |-> seed, after |-> SEED']}
                /\ nrngs' = nrngs + 1
                /\ UNCHANGED rstate
    /\ fcalls' = {}
    /\ UNCHANGED << seed_poisoned, ALREADY_PRINTED, printed, draws >>
    /\ UNCHANGED notRng

\* SeededRng::from_seed(seed) on thread t; its panic! happens with the lock
\* of SEED held, which poisons the Mutex
RngFromSeed(t, seed) ==
    /\ rstate[t] = "running"
    /\ nrngs < MaxRngs
    /\ IF seed_poisoned \/ Mismatch(SEED, seed)
       THEN /\ rstate' = [rstate EXCEPT ![t] = "unwinding"]
            /\ seed_poisoned' = TRUE
            /\ fcalls' =
                   {[arg |-> seed, before |-> SEED, poisoned |-> seed_poisoned,
                     outcome |-> "panic", after |-> SEED]}
            /\ UNCHANGED << SEED, seed_sets, rngs, nrngs >>
       ELSE /\ nrngs' = nrngs + 1
            /\ SEED' = IF SEED = NoSeed THEN seed ELSE SEED
            /\ seed_sets' = IF SEED = NoSeed THEN Append(seed_sets, seed) ELSE seed_sets
            /\ rngs' = [rngs EXCEPT ![t] = Append(@, Root(seed))]
            /\ fcalls' =
                   {[arg |-> seed, before |-> SEED, poisoned |-> seed_poisoned,
                     outcome |-> "ok", after |-> SEED']}
            /\ UNCHANGED << rstate, seed_poisoned >>
    /\ ncalls_new' = {}
    /\ UNCHANGED << ALREADY_PRINTED, printed, draws >>
    /\ UNCHANGED notRng

\* next_u32 on the newest SeededRng of thread t
RngNextU32(t) ==
    /\ rstate[t] = "running"
    /\ rngs[t] # << >>
    /\ draws < MaxDraws
    /\ draws' = draws + 1
    /\ rngs' = [rngs EXCEPT ![t][Len(rngs[t])] =
                  [@ EXCEPT !.state = XorShiftNext(@),
                            !.outs = Append(@, XorShiftNext(Top(t).state)),
                            !.path = Append(@, "gen")]]
    /\ UNCHANGED << SEED, seed_poisoned, ALREADY_PRINTED, printed, seed_sets, rstate,
                    ncalls_new, fcalls, nrngs >>
    /\ UNCHANGED notRng

\* new_rng on the newest SeededRng of thread t: four draws seed the child
RngNewRng(t) ==
    /\ rstate[t] = "running"
    /\ rngs[t] # << >>
    /\ nrngs < MaxRngs
    /\ nrngs' = nrngs + 1
    /\ rngs' = [rngs EXCEPT ![t] =
                  Append([@ EXCEPT ![Len(@)] =
                            [@ EXCEPT !.state = AfterFour(@),
                                      !.path = Append(@, "new_rng")]],
                         [state |-> XorShiftFromSeed(ChildSeed(Top(t).state)),
                          path |-> Top(t).path \o << "new_rng", "child" >>,
                          outs |-> << >>])]
    /\ UNCHANGED << SEED, seed_poisoned, ALREADY_PRINTED, printed, seed_sets, rstate,
                    ncalls_new, fcalls, draws >>
    /\ UNCHANGED notRng

\* Drop for SeededRng on a thread with thread::panicking() = p, when
\* ALREADY_PRINTED holds a: the new value of ALREADY_PRINTED
DropSets(p, a) == IF p THEN TRUE ELSE a

\* the same drop: whether it prints the seed
DropPrints(p, a) == p /\ ~CompareAndSwap(a)

\* thread t, not panicking, drops its newest SeededRng
RngDrop(t) ==
    /\ rstate[t] = "running"
    /\ rngs[t] # << >>
    /\ rngs' = [rngs EXCEPT ![t] = Pop(@)]
    /\ ALREADY_PRINTED' = DropSets(FALSE, ALREADY_PRINTED)
    /\ printed' = IF DropPrints(FALSE, ALREADY_PRINTED) THEN printed + 1 ELSE printed
    /\ UNCHANGED << SEED, seed_poisoned, seed_sets, rstate, ncalls_new, fcalls, nrngs,
                    draws >>
    /\ UNCHANGED notRng

\* the body of thread t panics
RngPanic(t) ==
    /\ rstate[t] = "running"
    /\ rstate' = [rstate EXCEPT ![t] = "unwinding"]
    /\ UNCHANGED << SEED, seed_poisoned, ALREADY_PRINTED, printed, seed_sets, rngs,
                    ncalls_new, fcalls, nrngs, draws >>
    /\ UNCHANGED notRng

\* thread t unwinds: its newest SeededRng is dropped while it panics
RngUnwindDrop(t) ==
    /\ rstate[t] = "unwinding"
    /\ rngs[t] # << >>
    /\ rngs' = [rngs EXCEPT ![t] = Pop(@)]
    /\ ALREADY_PRINTED' = DropSets(TRUE, ALREADY_PRINTED)
    /\ printed' = IF DropPrints(TRUE, ALREADY_PRINTED) THEN printed + 1 ELSE printed
    /\ UNCHANGED << SEED, seed_poisoned, seed_sets, rstate, ncalls_new, fcalls,
                    nrngs, draws >>
    /\ UNCHANGED notRng

\* thread t has unwound
RngUnwindEnd(t) ==
    /\ rstate[t] = "unwinding"
    /\ rngs[t] = << >>
    /\ rstate' = [rstate EXCEPT ![t] = "panicked"]
    /\ UNCHANGED << SEED, seed_poisoned, ALREADY_PRINTED, printed, seed_sets, rngs,
                    ncalls_new, fcalls, nrngs, draws >>
    /\ UNCHANGED notRng

InitRng ==
    /\ PipelineIdle
    /\ ServerIdle
    /\ LoggerIdle
    /\ CreatorIdle
    /\ JoinerIdle
    /\ EventsIdle
    /\ RngIdle
    /\ ParseIdle
    /\ SerialIdle
    /\ ArmIdle

NextRng ==
    \E t \in RngThreads :
        \/ RngNew(t)
        \/ \E seed \in Seeds : RngFromSeed(t, seed)
        \/ RngNextU32(t)
        \/ RngNewRng(t)
        \/ RngDrop(t)
        \/ RngPanic(t)
        \/ RngUnwindDrop(t)
        \/ RngUnwindEnd(t)

SpecRng == InitRng /\ [][NextRng]_vars

(***************************************************************************)
(* parse_loggers (src/log/mod.rs): the value of RUST_LOG is split at the   *)
(* commas; a string is a sequence of one-character strings.                *)
(***************************************************************************)
\* comma-separated pieces of the input
MaxEntries == 4

COMMA == ","

EQUALS == "="

SPACE == " "

\* the names LogLevelFilter parses (in lower case)
LevelNames ==
    << [name |-> << "o", "f", "f" >>, level |-> "Off"],
       [name |-> << "e", "r", "r", "o", "r" >>, level |-> "Error"],
       [name |-> << "w", "a", "r", "n" >>, level |-> "Warn"],
       [name |-> << "i", "n", "f", "o" >>, level |-> "Info"],
       [name |-> << "d", "e", "b", "u", "g" >>, level |-> "Debug"],
       [name |-> << "t", "r", "a", "c", "e" >>, level |-> "Trace"] >>

DEFAULT_LOG_LEVEL_FILTER == "Warn"

\* str::parse::<LogLevelFilter>(): the level, or "none" for Err
ParseLevel(s) ==
    IF \E i \in 1..Len(LevelNames) : LevelNames[i].name = s
    THEN LevelNames[CHOOSE i \in 1..Len(LevelNames) : LevelNames[i].name = s].level
    ELSE "none"

\* the pieces between the commas that the inputs are made of
InputPieces ==
    { << >>,
      << " " >>,
      << "a" >>,
      << " ", "b", " " >>,
      << "i", "n", "f", "o" >>,
      << "d", "e", "b", "u", "g" >>,
      << "a", "=", "d", "e", "b", "u", "g" >>,
      << " ", "b", "=", "e", "r", "r", "o", "r" >>,
      << "a", "=", "x" >>,
      << "=", "d", "e", "b", "u", "g" >>,
      << "i", "n", "f", "o", "=", "t", "r", "a", "c", "e" >>,
      << "b", "=", "i", "n", "f", "o", "=", "x" >> }

\* the pieces joined with commas
RECURSIVE JoinWith(_, _)
JoinWith(ps, ch) ==
    IF ps = << >> THEN << >>
    ELSE IF Len(ps) = 1 THEN ps[1]
    ELSE ps[1] \o << ch >> \o JoinWith(Tail(ps), ch)

\* position of the first ch in s, or 0
RECURSIVE FirstAt(_, _, _)
FirstAt(s, ch, i) ==
    IF i > Len(s) THEN 0
    ELSE IF s[i] = ch THEN i
    ELSE FirstAt(s, ch, i + 1)

\* str::split(ch): the substrings between the occurrences of ch
RECURSIVE SplitOn(_, _)
SplitOn(s, ch) ==
    IF FirstAt(s, ch, 1) = 0 THEN << s >>
    ELSE << SubSeq(s, 1, FirstAt(s, ch, 1) - 1) >>
           \o SplitOn(SubSeq(s, FirstAt(s, ch, 1) + 1, Len(s)), ch)

\* str::trim
RECURSIVE Trim(_)
Trim(s) ==
    IF s = << >> THEN s
    ELSE IF s[1] = SPACE THEN Trim(Tail(s))
    ELSE IF s[Len(s)] = SPACE THEN Trim(SubSeq(s, 1, Len(s) - 1))
    ELSE s

\* the sequence q without its empty elements
RECURSIVE NonEmpty(_)
NonEmpty(q) ==
    IF q = << >> THEN << >>
    ELSE IF Head(q) = << >> THEN NonEmpty(Tail(q))
    ELSE << Head(q) >> \o NonEmpty(Tail(q))

\* input.split(',').map(str::trim).filter(|d| !d.is_empty())
SubInputs(input) ==
    LET pieces == SplitOn(input, COMMA)
    IN  NonEmpty([i \in 1..Len(pieces) |-> Trim(pieces[i])])

\* while let Some(module) = grouped_modules.pop_front(): a logger for each at level
Flush_Dropped(loggers, grouped, level) == loggers
Flush(loggers, grouped, level) ==
    loggers \o [i \in 1..Len(grouped) |-> [name |-> grouped[i], level |-> level]]

\* the body of the loop for the sub-inputs from the k-th on, then the end of
\* the function; st holds loggers, grouped_modules and default_level
RECURSIVE ParseFrom(_, _, _)
ParseFrom(subs, k, st) ==
    IF k > Len(subs)
    THEN [ok |-> TRUE, level |-> st.default_level,
          loggers |-> Flush(st.loggers, st.grouped_modules, st.default_level)]
    ELSE LET parts == SplitOn(Trim(subs[k]), EQUALS) IN
         IF Len(parts) >= 2
         THEN IF ParseLevel(parts[2]) = "none"
              THEN [ok |-> FALSE, level |-> "none", loggers |-> << >>]
              ELSE ParseFrom(subs, k + 1,
                     [st EXCEPT
                        !.loggers = Append(
                            Flush(st.loggers, st.grouped_modules, ParseLevel(parts[2])),
                            [name |-> parts[1], level |-> ParseLevel(parts[2])]),
                        !.grouped_modules = << >>])
         ELSE IF ParseLevel(parts[1]) # "none"
              THEN ParseFrom(subs, k + 1,
                     [st EXCEPT !.default_level = ParseLevel(parts[1])])
              ELSE ParseFrom(subs, k + 1,
                     [st EXCEPT !.grouped_modules = Append(@, parts[1])])

parse_loggers(input) ==
    ParseFrom(SubInputs(input), 1,
              [loggers |-> << >>, grouped_modules |-> << >>,
               default_level |-> DEFAULT_LOG_LEVEL_FILTER])

\* parse_loggers is called with the input
ParseLoggers ==
    /\ p_result = NotParsed
    /\ p_result' = parse_loggers(p_input)
    /\ UNCHANGED p_input
    /\ UNCHANGED notParse

InitParse ==
    /\ PipelineIdle
    /\ ServerIdle
    /\ LoggerIdle
    /\ CreatorIdle
    /\ JoinerIdle
    /\ EventsIdle
    /\ RngIdle
    /\ SerialIdle
    /\ ArmIdle
    /\ p_input \in { JoinWith(ps, COMMA) :
                       ps \in UNION { [1..n -> InputPieces] : n \in 0..MaxEntries } }
    /\ p_result = NotParsed

NextParse == ParseLoggers

SpecParse == InitParse /\ [][NextParse]_vars

(***************************************************************************)
(* The serialisation functions (src/serialisation.rs) over bincode, for    *)
(* three types T: u8, Vec<u8> and BTreeSet<u8>. A value is held as the     *)
(* sequence of its elements (a set: in ascending order).                   *)
(***************************************************************************)
\* length of the longest input given to the deserialising functions
MaxBytes == 5

\* bytes a length takes in the encoding (bincode writes a u64, little-endian;
\* the model keeps the layout with a narrower length)
LenWidth == 2

\* the byte values that occur
ByteVals == {0, 1, 2, 255}

Types == {"u8", "bytes", "set"}

\* the sequences over S of length at most n
SeqsUpTo(S, n) == UNION { [1..k -> S] : k \in 0..n }

Ascending(v) == \A i \in 1..(Len(v) - 1) : v[i] < v[i + 1]

\* the values of type t that fit the inputs
Values(t) ==
    IF t = "u8" THEN [1..1 -> ByteVals]
    ELSE IF t = "bytes" THEN SeqsUpTo(ByteVals, MaxBytes - LenWidth)
    ELSE { v \in SeqsUpTo(ByteVals, MaxBytes - LenWidth) : Ascending(v) }

RECURSIVE Pow256(_)
Pow256(i) == IF i = 0 THEN 1 ELSE 256 * Pow256(i - 1)

\* a length as bincode writes it: little-endian
LenBytes_OffByOne(n) == [i \in 1..LenWidth |-> ((n + 1) \div Pow256(i - 1)) % 256]
LenBytes(n) == [i \in 1..LenWidth |-> (n \div Pow256(i - 1)) % 256]

\* the length read from the first LenWidth bytes of data
RECURSIVE ReadLen(_, _)
ReadLen(data, i) ==
    IF i > LenWidth THEN 0 ELSE data[i] * Pow256(i - 1) + ReadLen(data, i + 1)

\* bincode::serialize
Encode(t, v) == IF t = "u8" THEN v ELSE LenBytes(Len(v)) \o v

\* the elements of a set in ascending order
RECURSIVE SortSet(_)
SortSet(S) ==
    IF S = {} THEN << >>
    ELSE LET m == CHOOSE x \in S : \A y \in S : x <= y
         IN  << m >> \o SortSet(S \ {m})

\* the value made of the elements read for type t
Collect(t, elems) ==
    IF t = "set" THEN SortSet({ elems[i] : i \in 1..Len(elems) }) ELSE elems

\* bincode::deserialize / deserialize_from: the value and the number of bytes
\* read, or an error when the input ends early
Decode(t, data) ==
    IF t = "u8"
    THEN IF Len(data) >= 1
         THEN [ok |-> TRUE, value |-> SubSeq(data, 1, 1), used |-> 1]
         ELSE [ok |-> FALSE, value |-> << >>, used |-> 0]
    ELSE IF Len(data) < LenWidth \/ Len(data) < LenWidth + ReadLen(data, 1)
         THEN [ok |-> FALSE, value |-> << >>, used |-> 0]
         ELSE [ok |-> TRUE,
               value |-> Collect(t, SubSeq(data, LenWidth + 1, LenWidth + ReadLen(data, 1))),
               used |-> LenWidth + ReadLen(data, 1)]

\* bincode::serialized_size
SerialisedSize(t, v) == Len(Encode(t, v))

\* deserialise: the test that leads to DeserialiseExtraBytes
SizeDiffers_Never(size, len) == FALSE
SizeDiffers(size, len) == size # len

deserialise(t, data) ==
    LET d == Decode(t, data) IN
    IF ~d.ok THEN [kind |-> "Deserialise", value |-> << >>]
    ELSE IF SizeDiffers(SerialisedSize(t, d.value), Len(data))
    THEN [kind |-> "DeserialiseExtraBytes", value |-> << >>]
    ELSE [kind |-> "Ok", value |-> d.value]

deserialise_from(t, data) ==
    LET d == Decode(t, data) IN
    IF ~d.ok THEN [kind |-> "Deserialise", value |-> << >>]
    ELSE [kind |-> "Ok", value |-> d.value]

\* serialise(&value): the bytes are returned
Serialise ==
    /\ s_phase = "value"
    /\ s_buf' = Encode(s_type, s_value)
    /\ s_via' = "serialise"
    /\ s_phase' = "bytes"
    /\ UNCHANGED << s_type, s_value, s_how, s_res >>
    /\ UNCHANGED notSerial

\* serialise_into(&value, &mut write) with an empty Vec as write
SerialiseInto ==
    /\ s_phase = "value"
    /\ s_buf' = s_buf \o Encode(s_type, s_value)
    /\ s_via' = "serialise_into"
    /\ s_phase' = "bytes"
    /\ UNCHANGED << s_type, s_value, s_how, s_res >>
    /\ UNCHANGED notSerial

\* deserialise::<T>(&bytes)
Deserialise ==
    /\ s_phase = "bytes"
    /\ s_res' = deserialise(s_type, s_buf)
    /\ s_how' = "deserialise"
    /\ s_phase' = "done"
    /\ UNCHANGED << s_type, s_value, s_buf, s_via >>
    /\ UNCHANGED notSerial

\* deserialise_from::<_, T>(&mut Cursor::new(bytes))
DeserialiseFrom ==
    /\ s_phase = "bytes"
    /\ s_res' = deserialise_from(s_type, s_buf)
    /\ s_how' = "deserialise_from"
    /\ s_phase' = "done"
    /\ UNCHANGED << s_type, s_value, s_buf, s_via >>
    /\ UNCHANGED notSerial

InitSerial ==
    /\ PipelineIdle
    /\ ServerIdle
    /\ LoggerIdle
    /\ CreatorIdle
    /\ JoinerIdle
    /\ EventsIdle
    /\ RngIdle
    /\ ParseIdle
    /\ ArmIdle
    /\ s_type \in Types
    /\ s_via = "none"
    /\ s_how = "none"
    /\ s_res = NoRes
    /\ \/ /\ s_phase = "value"
          /\ s_value \in Values(s_type)
          /\ s_buf = << >>
       \/ /\ s_phase = "bytes"
          /\ s_value = << >>
          /\ s_buf \in SeqsUpTo(ByteVals, MaxBytes)

NextSerial ==
    \/ Serialise
    \/ SerialiseInto
    \/ Deserialise
    \/ DeserialiseFrom

SpecSerial == InitSerial /\ [][NextSerial]_vars

(***************************************************************************)
(* A worker that ends while the appender is alive.  AsyncAppender::new of  *)
(* src/async_log.rs is public and takes any W: SyncWrite: a sync_write     *)
(* that panics unwinds the worker's closure, which drops rx with the       *)
(* events still queued; from then on every send on tx fails.               *)
(***************************************************************************)
WorkerPanic ==
    /\ workerPc = "writing"
    /\ UNCHANGED outside
    /\ workerPc' = "panicked"
    /\ cur' = NoMsg
    /\ chan' = << >>
    /\ UNCHANGED << kind, encoder, app, spawned, sink, calls, returns, dequeued, pc,
                    pending, result, enq, owner, nextId >>

NextFaulty ==
    \/ Next
    \/ WorkerPanic

\* the pipeline with a Transport whose sync_write may panic
SpecFaulty == Init /\ [][NextFaulty]_vars

(***************************************************************************)
(* The Log arm of the worker's loop as a function of one buffer:           *)
(* String::from_utf8, the rewrite of the marked path, sync_write.  The     *)
(* buffers are lines of the pattern of make_pattern, "... #FS#%f#FE#:%L    *)
(* %m", for a range of file paths, and short buffers of arbitrary bytes.   *)
(***************************************************************************)
\* length of the file path in a line, and of a buffer of arbitrary bytes
MaxPath == 3

\* '/', '\', 'a', '#', '$'
PathChars == {SLASH, BACKSLASH, 97, HASH, DOLLAR}

\* what stands before the marked path: nothing, or "é "
Heads == { << >>, <<195, 169, 32>> }

\* what stands behind it: nothing, ":1", or ":1 " and the text "b/c#FE#"
Tails == { << >>, <<58, 49>>, <<58, 49, 32, 98, 47, 99, 35, 70, 69, 35>> }

\* 'A', the two bytes of "é", '#', and the bytes of MSG_TERMINATOR
RawBytes == {65, 195, 169, HASH, 253, 254, 255}

\* %f is the path of a source file: it is not empty and does not end in a
\* separator
FilePaths ==
    { q \in UNION { [1..n -> PathChars] : n \in 1..MaxPath } :
        q[Len(q)] \notin {SLASH, BACKSLASH} }

ArmInputs ==
    { [marked |-> TRUE, head |-> h, path |-> q, tail |-> t] :
        h \in Heads, q \in FilePaths, t \in Tails }
      \cup { [marked |-> FALSE, head |-> b, path |-> << >>, tail |-> << >>] :
               b \in UNION { [1..n -> RawBytes] : n \in 0..MaxPath } }

\* the bytes of the buffer
BufOf(in) ==
    IF in.marked THEN in.head \o <<35, 70, 83, 35>> \o in.path \o FE_MARK \o in.tail
    ELSE in.head

\* `if let Ok(mut str_msg) = String::from_utf8(msg)`: the rewrite and the
\* sync_write happen only for a String
LogArm_Unchecked(buf) == [ran |-> TRUE, written |-> TRUE, buf |-> ReplacePath(buf)]
LogArm(buf) ==
    IF IsUtf8(buf) THEN [ran |-> TRUE, written |-> TRUE, buf |-> ReplacePath(buf)]
    ELSE [ran |-> TRUE, written |-> FALSE, buf |-> << >>]

WorkerLogArm ==
    /\ ~w_out.ran
    /\ w_out' = LogArm(BufOf(w_in))
    /\ UNCHANGED w_in
    /\ UNCHANGED notArm

InitArm ==
    /\ PipelineIdle
    /\ ServerIdle
    /\ LoggerIdle
    /\ CreatorIdle
    /\ JoinerIdle
    /\ EventsIdle
    /\ RngIdle
    /\ ParseIdle
    /\ SerialIdle
    /\ w_in \in ArmInputs
    /\ w_out = NotRun

NextArm == WorkerLogArm

SpecArm == InitArm /\ [][NextArm]_vars

(***************************************************************************)
(* Properties.                                                             *)
(***************************************************************************)
CallIds == { calls[i].id : i \in 1..Len(calls) }

EnqIds == { enq[a] : a \in 1..Len(enq) }

ChanIds == { chan[a].id : a \in 1..Len(chan) }

HasErr == \E i \in 1..Len(returns) : returns[i].res = "err"

RECURSIVE Frames(_, _)
\* <message><terminator> for each of the first n buffers of cs
Frames(cs, n) ==
    IF n = 0 THEN << >> ELSE Frames(cs, n - 1) \o cs[n].msg \o MSG_TERMINATOR

RECURSIVE Puts(_, _)
\* the bytes the first n finished calls put on the sink
Puts(rs, n) == IF n = 0 THEN << >> ELSE Puts(rs, n - 1) \o rs[n].put

\* C1: the buffers one appender's worker passes to sync_write are in the order in
\* which their Log events were enqueued on the channel: of two written messages,
\* the one written first was enqueued first.
C1_WritesInEnqueueOrder ==
    \A i, j \in 1..Len(calls) :
        i < j => \E a, b \in 1..Len(enq) :
                    a < b /\ enq[a] = calls[i].id /\ enq[b] = calls[j].id

\* two messages were written, and the one whose append began second was enqueued
\* (and written) first
C1_Witness ==
    /\ Len(calls) >= 2
    /\ calls[1].id > calls[2].id
    /\ enq[1] = calls[1].id

\* C2: when drop of the appender has returned, every message enqueued by an
\* append that returned Ok has been passed to sync_write: after N successful
\* appends and the drop, the Transport has seen exactly N writes, all finished.
C2_DropFlushesAll ==
    app = "dropped" =>
        /\ Len(calls) = Len(enq)
        /\ EnqIds \subseteq CallIds
        /\ Len(returns) = Len(calls)

C2_Witness == app = "dropped" /\ Len(enq) >= 2 /\ Len(calls) >= 2

\* C3: with several producer threads appending concurrently, the writes are an
\* interleaving of the threads' send sequences: each message sent is written at
\* most once, only sent messages are written, two messages of the same thread are
\* written in the order the thread sent them, and once the appender is dropped
\* the writes are a permutation of all the messages sent.
C3_InterleavingOfSenders ==
    /\ \A i, j \in 1..Len(calls) :
          i < j => /\ calls[i].id # calls[j].id
                   /\ owner[calls[i].id] = owner[calls[j].id] => calls[i].id < calls[j].id
    /\ CallIds \subseteq EnqIds
    /\ app = "dropped" => CallIds = EnqIds /\ Len(calls) = Len(enq)

\* the appender is dropped after two messages, sent by two different threads,
\* were written
C3_Witness ==
    /\ app = "dropped"
    /\ Len(calls) = 2
    /\ owner[calls[1].id] # owner[calls[2].id]

C5_OneWorkerJoinedByDrop ==
    /\ spawned = (IF app = "unbuilt" THEN 0 ELSE 1)
    /\ app = "dropped" =>
          /\ workerPc = "done"
          /\ cur = NoMsg
          /\ Len(returns) = Len(calls)
          /\ ~ENABLED WorkerRecv
          /\ ~ENABLED WorkerWriteReturn

C5_Witness == app = "dropped" /\ spawned = 1 /\ Len(calls) >= 1

\* C6: a sync_write that returns an I/O error makes the worker neither exit nor
\* panic, and the message is neither retried nor requeued: the worker stops only
\* through the drop of the appender, no message is passed to sync_write twice or
\* put back on the channel, no producer is ever handed the error, and every
\* message enqueued is still written by the time the drop returns.
C6_WriteErrorIsSwallowed ==
    /\ workerPc # "panicked"
    /\ workerPc = "done" => app # "live"
    /\ \A i, j \in 1..Len(calls) : i < j => calls[i].id # calls[j].id
    /\ CallIds \cap ChanIds = {}
    /\ \A p \in Threads : result[p] # "err_send"
    /\ app = "dropped" => EnqIds \subseteq CallIds

\* a write failed, and a later message was written successfully after it
C6_Witness ==
    /\ Len(returns) >= 2
    /\ returns[1].res = "err"
    /\ returns[2].res = "ok"
    /\ \E p \in Threads : result[p] = "ok"

C8_ErrorOnlyWhenChannelClosed ==
    \A p \in Threads : result[p] \in {"err_encode", "err_send"} => ~RxAlive

\* C8, amended: append returns an error only when the encoder returned an error
\* or the channel is closed because the worker has gone; while the worker is
\* receiving, the send of an encoded record succeeds and append returns Ok.
C8_ErrorOnlyFromEncoderOrClosedChannel ==
    \A p \in Threads :
        /\ result[p] = "err_send" => ~RxAlive
        /\ (pc[p] = "encoded" /\ RxAlive) =>
              ENABLED (AppendSend(p) /\ result'[p] = "ok")

\* with the worker receiving, one append has returned Ok and another the
\* encoder's error
C8_Witness ==
    /\ RxAlive
    /\ \E p, q \in Threads : result[p] = "err_encode" /\ result[q] = "ok"

\* C9: a producer's append never waits for the Transport: the send of an encoded
\* record can be done at once in every state, also while the worker is inside
\* sync_write and whatever the length of the queue.
C9_AppendNeverWaits ==
    \A p \in Threads : pc[p] = "encoded" => ENABLED AppendSend(p)

\* a producer is inside append, about to send, while the worker is inside
\* sync_write
C9_Witness ==
    /\ workerPc = "writing"
    /\ \E p \in Threads : pc[p] = "encoded"

\* C10 as stated: the TCP stream is the concatenation of <message><terminator>,
\* once for each message the worker has written.
C10_StreamIsFramedMessages ==
    kind = "tcp" => sink = Frames(calls, Len(returns))

\* C10, amended: each sync_write on the TCP transport that returns Ok has put on
\* the stream exactly the message bytes followed by 254,253,255; one that returns
\* an error has put a proper prefix of them; and as long as no sync_write has
\* failed the stream is the concatenation of <message><terminator> per message.
C10_OkWritesAreFramed ==
    kind = "tcp" =>
        /\ \A i \in 1..Len(returns) :
              LET full == calls[i].msg \o MSG_TERMINATOR
              IN IF returns[i].res = "ok"
                 THEN returns[i].put = full
                 ELSE /\ Len(returns[i].put) < Len(full)
                      /\ returns[i].put = Prefix(full, Len(returns[i].put))
        /\ sink = Puts(returns, Len(returns))
        /\ ~HasErr => sink = Frames(calls, Len(returns))

\* two messages went out on the TCP stream, both writes returning Ok
C10_Witness ==
    /\ kind = "tcp"
    /\ Len(returns) >= 2
    /\ ~HasErr
    /\ sink = Frames(calls, 2)

(***************************************************************************)
(* C11: the server recovers exactly the messages that were written, in     *)
(* their order and with their content, however the connection cuts the     *)
(* stream into reads: what it has recovered is always the first messages   *)
(* written, and once everything written has been read it is all of them,   *)
(* with nothing left over in read_buf.                                     *)
(***************************************************************************)
C11_ServerRecoversMessages ==
    /\ srv = "run"
    /\ Len(log_msgs) <= sent
    /\ log_msgs = SubSeq(written, 1, Len(log_msgs))
    /\ (sent = Len(written) /\ wire = << >>) =>
           (log_msgs = written /\ read_buf = << >>)

\* all of at least two messages recovered although a read ended inside a terminator
C11_Witness ==
    /\ split
    /\ Len(written) >= 2
    /\ sent = Len(written)
    /\ wire = << >>
    /\ log_msgs = written

\* callers whose init function is over
Finished == { t \in Callers : ipc[t] \in {"returned", "panicked"} }

\* callers whose closure call_once ran
Ran == { bodies[i] : i \in 1..Len(bodies) }

(***************************************************************************)
(* C12: the body of the init functions runs at most once per process, and  *)
(* every call made after the guard has been used returns                   *)
(* Err("Logger already initialised"); appenders are constructed and the    *)
(* logger is installed by that one body only.                              *)
(***************************************************************************)
C12_LaterCallsReturnAlreadyInitialised ==
    /\ Len(bodies) <= 1
    /\ installed <= 1
    /\ (bodies = << >>) => (built = 0 /\ installed = 0)
    /\ \A t \in Finished \ Ran :
           ipc[t] = "returned" /\ init_result[t] = "already"

(***************************************************************************)
(* C13: of callers that are inside the init functions at the same time,    *)
(* exactly one runs the initialisation; every other one returns            *)
(* Err("Logger already initialised"), and not before the closure of the    *)
(* initialising caller is over.                                            *)
(***************************************************************************)
C13_ConcurrentCallersWaitAndReturnErr ==
    /\ Cardinality(Ran) <= 1
    /\ (overlapped # {}) => Cardinality(Ran) = 1
    /\ \A t \in overlapped :
           /\ t \notin Ran
           /\ t \in Finished =>
                  /\ INITIALISE_LOGGER # "running"
                  /\ ipc[t] = "returned"
                  /\ init_result[t] = "already"

\* deserialize has returned
Deserialized == dstate = "done"

\* no Transport was opened or connected, no thread spawned, no appender made
NothingConstructed ==
    /\ opens = 0
    /\ connects = 0
    /\ workers = 0
    /\ ws_thread = "none"
    /\ file_mode = "closed"

\* the key a Creator requires (output_file_name / path, server_addr, server_url)
\* is not in the configuration
RequiredKeyAbsent == creator # "console" /\ config.target = "absent"

\* some key of the configuration holds a value of the wrong type
WrongTypeKey == \E k \in DOMAIN config : config[k] = "wrong"

(***************************************************************************)
(* C14: when the key a Creator requires is absent, deserialize returns an  *)
(* error and has attempted no network connection, no file open and no      *)
(* thread spawn.                                                           *)
(***************************************************************************)
C14_MissingRequiredKeyIsAnError ==
    (dstate # "start" /\ RequiredKeyAbsent) =>
        /\ Deserialized
        /\ dresult = "ConfigError"
        /\ ~handler_ran
        /\ NothingConstructed

C14_Witness == Deserialized /\ RequiredKeyAbsent /\ dresult = "ConfigError"

C16_DefaultsAreTrue ==
    (Deserialized /\ dresult = "ok") =>
        /\ (creator = "file" /\ config.append = "absent") => b_append = "true"
        /\ (creator = "tcp" /\ config.no_delay = "absent") => b_no_delay = "true"

(***************************************************************************)
(* C17: a file appender made with append = false holds only what this      *)
(* appender has written; one made with append = true holds what the file   *)
(* held before, followed by what this appender has written.                *)
(***************************************************************************)
C17_AppendKeepsAndTruncateRemoves ==
    (creator = "file" /\ dresult = "ok") =>
        dest = (IF b_append = "true" THEN prior ELSE << >>) \o puts

(***************************************************************************)
(* C18: whatever the Transport, a sync_write that returns Ok has handed    *)
(* all the bytes of the message to the destination: nothing of it is held  *)
(* back short of the destination when the call returns.                    *)
(***************************************************************************)
C18_OkMeansHandedOver ==
    \A i \in 1..Len(wreturns) :
        (wreturns[i].res = "ok") =>
            /\ wreturns[i].unsent = 0
            /\ Len(wreturns[i].put) >= Len(wreturns[i].buf)

\* WebSocket::new has returned, and the outcome of the handshake was known then
C19_ReturnsTheOutcome ==
    (ws_thread # "none" /\ Deserialized) =>
        /\ ws_thread \in {"open", "ended"}
        /\ (dresult = "ok") <=> ws_opened
        /\ (dresult # "ok") => (dresult = "io_error" /\ workers = 0)

(***************************************************************************)
(* C19: WebSocket::new returns only when the outcome of the handshake is   *)
(* known: Ok only after on_open has run and passed the send handle through *)
(* the channel, Err when the connection failed or its thread ended without *)
(* a handshake; and in that case it does return.                           *)
(***************************************************************************)
C19_NewReturnsHandshakeOutcome ==
    /\ []C19_ReturnsTheOutcome
    /\ (dstate = "in_new" /\ ws_thread = "ended") ~> Deserialized

\* the thread ended without a handshake and WebSocket::new returned Err
C19_Witness ==
    /\ creator = "web_socket"
    /\ Deserialized
    /\ ws_thread = "ended"
    /\ ~ws_opened
    /\ dresult = "io_error"

(***************************************************************************)
(* C20: with the scheduling fair to the worker, every message that append  *)
(* has put on the channel is in the end passed to the Transport's          *)
(* sync_write, whether or not the appender is ever dropped.                *)
(***************************************************************************)
C20_EveryEnqueuedIsWritten == <>[](EnqIds \subseteq CallIds)

\* two messages written through to the sink of an appender that is still alive
C20_Witness ==
    /\ app = "live"
    /\ Len(enq) >= 2
    /\ EnqIds = CallIds
    /\ Len(returns) = Len(calls)
    /\ ~HasErr
    /\ sink # << >>

\* the managed thread has terminated, by returning or by a panic
Terminated(j) == tstate[j] \in {"done", "panicked", "aborted"}

\* C21: the drop of a Joiner that was not detached does not return before the
\* thread it manages has terminated: while the thread runs (or unwinds) the
\* drop stays inside join, and a drop that has returned, normally or by the
\* panic of unwrap_result!, has joined a terminated thread
C21_DropWaitsForThread ==
    \A j \in Joiners :
        (~detached[j] /\ jstate[j] \in {"dropped", "drop_panicked"})
            => (Terminated(j) /\ joined[j])

\* a drop was entered while its thread was running and returned after it ended
C21_Witness ==
    \E j \in Joiners :
        /\ jstate[j] = "dropped"
        /\ waited[j]
        /\ joined[j]
        /\ tstate[j] = "done"

\* no join is ever called on the handle of a detached Joiner
C22_NeverJoined ==
    \A j \in Joiners : detached[j] => (~joined[j] /\ jstate[j] = "dropped")

\* C22: detach returns without waiting and without a join: a detached Joiner
\* is dropped at once, whatever its thread is doing, its thread is never
\* joined, and the thread goes on to its end
C22_DetachReleasesThread ==
    /\ []C22_NeverJoined
    /\ \A j \in Joiners : (detached[j] /\ ~Terminated(j)) ~> Terminated(j)

\* detach and the drop have returned while the thread is still running
C22_Witness ==
    \E j \in Joiners :
        /\ detached[j]
        /\ jstate[j] = "dropped"
        /\ tstate[j] = "running"
        /\ ncalls[j] > 0

\* C30: a log_or_panic! call panics exactly when the build is for testing and
\* the calling thread is not already panicking; in every other case it only
\* logs, so no thread starts a second panic while it unwinds
C30_PanicsOnlyWhenTestingAndNotPanicking ==
    /\ \A c \in lop : (c.outcome = "panic") <=> (testing /\ ~c.panicking)
    /\ \A j \in Joiners : tstate[j] # "aborted"

\* a thread of a testing build panicked in log_or_panic! and, while unwinding,
\* called it again from a Drop, which only logged
C30_Witness ==
    \E j \in Joiners :
        /\ testing
        /\ [thread |-> j, panicking |-> FALSE, outcome |-> "panic"] \in lop
        /\ [thread |-> j, panicking |-> TRUE, outcome |-> "log"] \in lop
        /\ tstate[j] = "panicked"

\* C23: a send begun after the observer has dropped its receivers returns
\* Err(EventSubset); every EventSubset error carries back the very event that
\* was given to send; and a send that returns while the observer is still
\* running returns Ok
C23_SendAfterObserverStoppedIsErr ==
    \A h \in sends :
        /\ h.gone => h.kind = "EventSubset"
        /\ (h.kind = "EventSubset") => h.carried = h.event
        /\ h.running => h.kind = "Ok"

\* one EventSender sent with success while the observer ran, and got its
\* event back in the error after the observer had gone
C23_Witness ==
    \E h, g \in sends :
        /\ h.sender = g.sender
        /\ h.running /\ h.kind = "Ok"
        /\ g.gone /\ g.kind = "EventSubset" /\ g.carried = g.event
        /\ obs = "gone"

\* the SeededRngs alive on any thread
LiveRngs == UNION { { rngs[t][i] : i \in 1..Len(rngs[t]) } : t \in RngThreads }

\* C24: SEED is assigned at most once and then keeps its value; every
\* generator that SeededRng::new() returns is seeded with the stored seed; and
\* any two generators with the same history from their constructor (the same
\* draws and new_rng calls in the same order, down to child generators) are
\* in the same state and have produced the same outputs
C24_SeedSetAtMostOnce ==
    /\ Len(seed_sets) <= 1
    /\ (seed_sets # << >>) => SEED = seed_sets[1]
    /\ \A c \in ncalls_new : c.seeded = SEED /\ c.after = SEED
    /\ \A a, b \in LiveRngs :
          (a.path = b.path) => (a.state = b.state /\ a.outs = b.outs)

\* two threads hold generators made by new() after the seed was set, each
\* has drawn, and each has derived a child generator
C24_Witness ==
    /\ \E c \in ncalls_new : c.before # NoSeed
    /\ fcalls = {}
    /\ \A t \in RngThreads :
          /\ Len(rngs[t]) = 2
          /\ rngs[t][1].path = << "root", "gen", "new_rng" >>
          /\ rngs[t][2].path = << "root", "gen", "new_rng", "child" >>
    /\ rngs["r1"] = rngs["r2"]

SomePanic == \E t \in RngThreads : rstate[t] # "running"

\* C26: the seed is printed at most once however many threads panic while
\* they own a SeededRng; ALREADY_PRINTED never goes back to false, only the
\* drop of a SeededRng by a panicking thread changes it, and it is false as
\* long as no thread has panicked, whatever was made and dropped
C26_SeedPrintedOnce ==
    /\ [](printed <= 1)
    /\ [](ALREADY_PRINTED <=> printed = 1)
    /\ [](~SomePanic => ~ALREADY_PRINTED)
    /\ [][ALREADY_PRINTED => ALREADY_PRINTED']_vars
    /\ [][(ALREADY_PRINTED' # ALREADY_PRINTED) =>
              \E t \in RngThreads : /\ rstate[t] = "unwinding"
                                    /\ Len(rngs'[t]) < Len(rngs[t])]_vars

\* both threads have panicked, each owning a SeededRng made by new(), and
\* the seed was printed
C26_Witness ==
    /\ \A t \in RngThreads : rstate[t] = "panicked"
    /\ ncalls_new # {}
    /\ printed = 1
    /\ ALREADY_PRINTED

\* entry k of the entries es has the form module=level
IsAssign(es, k) == FirstAt(es[k], EQUALS, 1) # 0

\* entry k is a bare token that parses as a level
IsBareLevel(es, k) == ~IsAssign(es, k) /\ ParseLevel(es[k]) # "none"

\* the level written in the module=level entry k
AssignedLevel(es, k) == ParseLevel(SplitOn(es[k], EQUALS)[2])

\* the default level at the end: that of the last bare level, else Warn
FinalDefault(es) ==
    IF \E k \in 1..Len(es) : IsBareLevel(es, k)
    THEN ParseLevel(es[CHOOSE k \in 1..Len(es) :
                          IsBareLevel(es, k) /\ \A j \in (k + 1)..Len(es) : ~IsBareLevel(es, j)])
    ELSE "Warn"

\* the level the logger of entry k (no bare level) is to have
ExpectedLevel(es, k) ==
    IF IsAssign(es, k) THEN AssignedLevel(es, k)
    ELSE IF \E j \in (k + 1)..Len(es) : IsAssign(es, j)
    THEN AssignedLevel(es, CHOOSE j \in (k + 1)..Len(es) :
                              IsAssign(es, j) /\ \A i \in (k + 1)..(j - 1) : ~IsAssign(es, i))
    ELSE FinalDefault(es)

\* the name of the logger of entry k
ExpectedName(es, k) == IF IsAssign(es, k) THEN SplitOn(es[k], EQUALS)[1] ELSE es[k]

\* the entries from the k-th on that yield a logger, in input order
RECURSIVE LoggerEntries(_, _)
LoggerEntries(es, k) ==
    IF k > Len(es) THEN << >>
    ELSE IF IsBareLevel(es, k) THEN LoggerEntries(es, k + 1)
    ELSE << k >> \o LoggerEntries(es, k + 1)

\* C27: when parse_loggers returns Ok, the level it returns is that of the
\* last bare level token (Warn when there is none), and the loggers are, in
\* input order, one for each entry that is no bare level: a module=level
\* entry with its own level, a bare module name with the level of the next
\* module=level entry after it or, when none follows, the final default
\* level. The entries are what lies between the commas, trimmed, without
\* the empty ones
C27_ParseLoggersGroupsModules ==
    (p_result # NotParsed /\ p_result.ok) =>
        LET es == SubInputs(p_input)
            le == LoggerEntries(es, 1)
        IN  /\ p_result.level = FinalDefault(es)
            /\ Len(p_result.loggers) = Len(le)
            /\ \A i \in 1..Len(le) :
                  /\ p_result.loggers[i].name = ExpectedName(es, le[i])
                  /\ p_result.loggers[i].level = ExpectedLevel(es, le[i])

\* as "info,foo,baz=debug,a0" of the tests: a level, a bare module that takes
\* the level of the entry after it, and a bare module that gets the default
C27_Witness ==
    /\ p_input = << "i", "n", "f", "o", ",", "a", ",", " ", "b", "=", "e", "r", "r", "o",
                    "r", ",", " ", "b", " " >>
    /\ p_result = [ok |-> TRUE, level |-> "Info",
                   loggers |-> << [name |-> << "a" >>, level |-> "Error"],
                                  [name |-> << "b" >>, level |-> "Error"],
                                  [name |-> << "b" >>, level |-> "Info"] >>]

\* C28: a value that was serialised, by serialise or by serialise_into, comes
\* back as Ok(value) from deserialise and from deserialise_from
C28_RoundTrip ==
    (s_phase = "done" /\ s_via # "none") => s_res = [kind |-> "Ok", value |-> s_value]

\* a Vec<u8> of two elements went through serialise_into and deserialise_from
C28_Witness ==
    /\ s_type = "bytes"
    /\ s_value = << 255, 1 >>
    /\ s_via = "serialise_into"
    /\ s_buf = << 2, 0, 255, 1 >>
    /\ s_how = "deserialise_from"
    /\ s_res = [kind |-> "Ok", value |-> << 255, 1 >>]

\* C29: whenever the input decodes but the decoding has not read all of its
\* bytes, deserialise returns Err(DeserialiseExtraBytes), and so never Ok
C29_ExtraBytesIsAnError ==
    (s_phase = "done" /\ s_how = "deserialise"
        /\ Decode(s_type, s_buf).ok /\ Decode(s_type, s_buf).used < Len(s_buf))
      => s_res.kind = "DeserialiseExtraBytes"

\* as in the test deserialize_bytes: one byte after a complete Vec<u8> of one
C29_Witness ==
    /\ s_type = "bytes"
    /\ s_via = "none"
    /\ s_buf = << 1, 0, 255, 255 >>
    /\ s_how = "deserialise"
    /\ s_res.kind = "DeserialiseExtraBytes"

\* C31: when the worker thread has ended while the AsyncAppender is alive, an
\* append returns the send error to its caller, and its message is neither put
\* on the channel nor ever passed to the Transport: the queue and the record of
\* enqueued ids stay as they were, and only enqueued ids are ever written.
C31_SendStep(p) == pc[p] = "encoded" /\ pc'[p] = "idle"

C31_AppendAfterWorkerExitIsErr ==
    /\ [](CallIds \subseteq EnqIds /\ (ChanIds \ {0}) \subseteq EnqIds)
    /\ [][\A p \in Threads :
            (C31_SendStep(p) /\ ~RxAlive) =>
                /\ result'[p] = "err_send"
                /\ chan' = chan
                /\ enq' = enq
                /\ pending[p].id \notin EnqIds
                /\ calls' = calls]_vars

\* the worker is gone, the appender is alive, and an append has returned the
\* send error
C31_Witness ==
    /\ app = "live"
    /\ workerPc = "panicked"
    /\ \E p \in Threads : result[p] = "err_send"

\* the text after the last '/' or '\' of a path
RECURSIVE FinalComponent(_)
FinalComponent(q) ==
    IF q = << >> \/ q[Len(q)] \in {SLASH, BACKSLASH} THEN << >>
    ELSE FinalComponent(Prefix(q, Len(q) - 1)) \o << q[Len(q)] >>

HasMarker(b) ==
    \E i \in 1..Len(b) : StartsAt(b, i, <<35, 70, 83, 35>>) \/ StartsAt(b, i, FE_MARK)

\* C34: a message with a file path between #FS# and #FE# is written with the
\* whole marked span replaced by the final component of the path and with
\* everything else as it was; a message without the markers is written
\* unchanged.
C34_MarkedPathBecomesFileName ==
    (w_out.ran /\ w_out.written) =>
        IF w_in.marked
        THEN w_out.buf = w_in.head \o FinalComponent(w_in.path) \o w_in.tail
        ELSE w_out.buf = BufOf(w_in)

\* C37: every buffer the worker passes to sync_write is valid UTF-8, so it holds
\* none of the bytes 254, 253, 255 and MSG_TERMINATOR does not occur in it; a
\* buffer that is not valid UTF-8 is not passed to sync_write.
C37_WrittenBufferHasNoTerminatorByte ==
    /\ w_out.written =>
          /\ IsUtf8(w_out.buf)
          /\ \A i \in 1..Len(w_out.buf) :
                /\ w_out.buf[i] \notin {253, 254, 255}
                /\ ~StartsAt(w_out.buf, i, MSG_TERMINATOR)
    /\ (w_out.ran /\ ~IsUtf8(BufOf(w_in))) => ~w_out.written

\* a buffer with a two-byte character was written
C37_Witness ==
    /\ w_out.written
    /\ ~w_in.marked
    /\ w_out.buf = <<65, 195, 169>>

\* C32: the Transport is used by the worker thread alone.  One worker is
\* spawned per appender; a sync_write begins and ends only in a step of that
\* worker, never in a step of a producer's append; and at most one sync_write
\* is in progress at any time, namely while the worker is in its write.
C32_ProducerStep ==
    \/ pc' # pc
    \/ result' # result
    \/ nextId' # nextId

C32_OnlyWorkerUsesTransport ==
    /\ [](/\ spawned <= 1
          /\ Len(calls) = Len(returns) + (IF workerPc = "writing" THEN 1 ELSE 0))
    /\ [][(calls' # calls \/ returns' # returns \/ sink' # sink) =>
            /\ ~C32_ProducerStep
            /\ workerPc \in {"recv", "writing"}
            /\ workerPc' # workerPc \/ cur' # cur]_vars

\* a sync_write is in progress while a producer is inside append
C32_Witness ==
    /\ workerPc = "writing"
    /\ \E p \in Threads : pc[p] = "encoded"

\* C33: when opening the file, connecting the TCP stream or the web-socket
\* handshake fails, build returns the error to its caller, and for that attempt
\* AsyncAppender::new is not called: no appender exists, no worker was spawned,
\* and nothing is ever written.
C33_FailedBuildMakesNothing ==
    /\ workers <= 1
    /\ (workers = 1) <=> (dresult = "ok")
    /\ dresult = "io_error" =>
          /\ dstate = "done"
          /\ workers = 0
          /\ wreturns = << >>
          /\ \/ creator = "file" /\ opens = 1
             \/ creator = "tcp" /\ connects = 1
             \/ creator = "web_socket" /\ ws_thread # "none"
    /\ (dstate = "done" /\ creator = "web_socket" /\ ~ws_opened) => dresult # "ok"

\* the connection thread of a web socket ended without a handshake and build
\* has returned the error
C33_Witness ==
    /\ creator = "web_socket"
    /\ dstate = "done"
    /\ dresult = "io_error"
    /\ ~ws_opened
    /\ ws_thread = "ended"

\* the frames whose sync_write returned Ok, one after the other
RECURSIVE FramesOf(_)
FramesOf(rs) ==
    IF rs = << >> THEN << >>
    ELSE FramesOf(Prefix(rs, Len(rs) - 1))
           \o (IF rs[Len(rs)].res = "ok" THEN rs[Len(rs)].buf ELSE << >>)

\* C35 as stated: when the web-socket transport has been dropped, the close
\* with the normal code was sent, behind every frame written through
\* sync_write, and the connection thread has finished.
C35_CloseSentOnDrop ==
    ws_drop = "dropped" =>
        /\ dest = FramesOf(wreturns) \o CLOSE_NORMAL
        /\ ws_thread = "ended"

\* C35, amended: the drop queues the close behind every frame written through
\* sync_write, so a close that is sent is sent after all of them and nothing is
\* sent after it, and the drop returns only when the connection thread has
\* finished; no close is queued when the connection has already ended.
C35_CloseQueuedBehindFrames ==
    /\ [](/\ \A i \in 1..Len(dest) :
                dest[i] = CLOSE_NORMAL[1] =>
                    /\ i = Len(dest)
                    /\ ws_drop # "live"
                    /\ Prefix(dest, i - 1) = FramesOf(wreturns)
          /\ \A k \in 1..Len(ws_queue) :
                ws_queue[k] = CLOSE_NORMAL => (k = Len(ws_queue) /\ ws_drop # "live")
          /\ ws_drop = "dropped" => ws_thread = "ended")
    /\ [][(creator = "web_socket" /\ ws_thread = "ended") =>
            (dest' = dest /\ ws_queue' = ws_queue)]_vars

\* the drop has returned after two frames and then the close were sent
C35_Witness ==
    /\ ws_drop = "dropped"
    /\ Len(wreturns) = 2
    /\ dest = FramesOf(wreturns) \o CLOSE_NORMAL
    /\ Len(dest) > 2

\* C36: with the default JSON pattern of the web-socket sink the id is drawn
\* once, when the appender is built, and does not change afterwards: every
\* message of the appender carries that one id.
C36_IdIsStable ==
    /\ [](dresult = "ok" /\ creator = "web_socket" /\ config.pattern = "absent" =>
            /\ pattern_id \in UniqueIds
            /\ \A i \in 1..Len(emitted) : emitted[i] = pattern_id)
    /\ [][dstate # "start" => pattern_id' = pattern_id]_vars

\* an appender with the default JSON pattern has given two messages to
\* sync_write
C36_Witness ==
    /\ creator = "web_socket"
    /\ config.pattern = "absent"
    /\ Len(emitted) = 2
    /\ emitted[1] = 2
    /\ emitted[2] = 2

\* the positions of Terminate in the queue
TerminateAt == { k \in 1..Len(chan) : chan[k].type = "Terminate" }

\* C38: Terminate is put on the channel at most once, only by the drop of the
\* appender and only when no append is in progress; it is therefore the last
\* event of the queue, no Log event is ever behind it, and the worker, which
\* leaves its loop only between two events, ends with no Log event left in the
\* queue and no write cut short.
C38_TerminateIsLast ==
    /\ [](/\ Cardinality(TerminateAt) <= 1
          /\ TerminateAt \subseteq {Len(chan)}
          /\ TerminateAt # {} => (app # "live" /\ \A p \in Threads : pc[p] = "idle")
          /\ workerPc = "done" => (chan = << >> /\ cur = NoMsg)
          /\ Len(calls) = Len(returns) + (IF workerPc = "writing" THEN 1 ELSE 0)
          /\ app = "dropped" => EnqIds \subseteq CallIds)
    /\ [][/\ (TerminateAt' # {} /\ TerminateAt = {}) =>
               (app = "live" /\ app' = "terminate_sent" /\ \A p \in Threads : pc[p] = "idle")
          /\ app \notin {"unbuilt", "live"} =>
               (app' \notin {"unbuilt", "live"} /\ enq' = enq)
          /\ (workerPc' = "done" /\ workerPc # "done") => workerPc = "recv"]_vars

\* Terminate waits behind a Log event while the worker is inside a write
C38_Witness ==
    /\ workerPc = "writing"
    /\ Len(chan) = 2
    /\ chan[1].type = "Log"
    /\ chan[2].type = "Terminate"

\* the category tokens of category c that are on the category channel
Tokens(c) == { k \in 1..Len(cat_chan) : cat_chan[k] = c }

\* C39 as stated: at every moment the tokens of a category that are in flight
\* are at most the events waiting on the event channel of that category.
C39_TokensAtMostEvents ==
    \A c \in Subsets : Cardinality(Tokens(c)) <= Len(ev_chan[c])

\* C39, amended: send puts the event on its channel before the category token,
\* so whatever the interleaving of the senders, the tokens of a category that
\* are in flight are never more than the events waiting on the event channel of
\* that category for as long as the observer holds the receiver of that
\* channel; an observer that takes one event for each token it receives finds
\* one every time.
C39_TokenNeverAheadOfEvent ==
    /\ [](\A c \in Subsets : rx_alive[c] => Cardinality(Tokens(c)) <= Len(ev_chan[c]))
    /\ [](\A s \in Senders : (spc[s] = "mid" /\ rx_alive[CategoryOf(s)]) =>
             Cardinality(Tokens(CategoryOf(s))) < Len(ev_chan[CategoryOf(s)]))
    /\ [][(obs = "running" /\ Len(cat_chan') < Len(cat_chan)) =>
            /\ ev_chan[Head(cat_chan)] # << >>
            /\ observed' = Append(observed, Head(ev_chan[Head(cat_chan)]))]_vars

\* the sends of an EventSender and of its clone overlap: both events are
\* queued and only one token, and the observer has taken an event before
C39_Witness ==
    /\ obs = "running"
    /\ Len(observed) = 1
    /\ Len(ev_chan["ui"]) = 2
    /\ Cardinality(Tokens("ui")) = 1
    /\ spc["ui"] = "mid" \/ spc["ui_clone"] = "mid"

====
